---- MODULE Spec2Model ----
(***************************************************************************)
(* Risk manager and trading loop of KrakenBots (risk_manager.py, main.py). *)
(*                                                                         *)
(* Number representation.  The program computes with Python floats; the    *)
(* model computes with exact integers and fractions:                       *)
(*   - equities and prices are integers (prices are multiples of 100, so   *)
(*     that price * 0.99 is an integer);                                   *)
(*   - the configured fractions (0.05, 0.015, ...) are thousandths;        *)
(*   - volumes are integers chosen so that every tier fraction of them is  *)
(*     an integer;                                                         *)
(*   - a drawdown (peak - equity) / peak is the pair [num, den], compared  *)
(*     by cross-multiplication.                                            *)
(***************************************************************************)
EXTENDS Integers, Sequences, FiniteSets, TLC

VARIABLES
    initial_equity,          \* RiskManager.initial_equity
    peak_equity,             \* RiskManager.peak_equity
    current_equity,          \* RiskManager.current_equity
    max_drawdown,            \* RiskManager.max_drawdown, a fraction [num, den]
    circuit_breaker_active,  \* RiskManager.circuit_breaker_active
    active_positions,        \* RiskManager.active_positions, a sequence of position records
    trade_history,           \* RiskManager.trade_history, a sequence of trade records
    now,                     \* logical value of time.time(): one tick per add_position
    ret,                     \* the last call and what it returned: [op, raised, val];
                             \* add_position and remove_position return the record
                             \* they appended, named here by its entry_time
    candles_in_position,     \* main.py global candles_in_position
    cycle,                   \* what the last decision cycle of main() did
    equity_log,              \* history variable of SpecPath: the equities supplied to
                             \* update_equity and the drawdowns it returned
    held                     \* history variable of SpecHold: for each active position,
                             \* by its entry_time, the passes of main() since the one
                             \* that opened it

vars == <<initial_equity, peak_equity, current_equity, max_drawdown,
          circuit_breaker_active, active_positions, trade_history, now, ret,
          candles_in_position, cycle, equity_log, held>>

equityVars == <<peak_equity, current_equity, max_drawdown, circuit_breaker_active>>
loopVars == <<candles_in_position, cycle, equity_log, held>>

-----------------------------------------------------------------------------
(* config.py, fractions in thousandths *)

MAX_DRAWDOWN_PERCENT == 50
MAX_CONCURRENT_TRADES == 2
TRAILING_STOP_DISTANCE == 10
PROFIT_TARGET_1 == 20
PROFIT_TARGET_1_SIZE == 500
PROFIT_TARGET_2 == 40
PROFIT_TARGET_2_SIZE == 300
PROFIT_TARGET_3 == 60
PROFIT_TARGET_3_SIZE == 200
BREAKEVEN_STOP_TRIGGER == 15
MAX_RISK_PERCENT == 50
\* ATR_STOP_MULTIPLIER = 2.0
ATR_STOP_MULTIPLIER == 2000
MAX_CANDLES_IN_TRADE == 10
\* MIN_ASSET_VOLUME = 1e-19 of an asset unit: below every positive volume.
\* Volumes are integers, so the smallest positive one stands for it.
MIN_ASSET_VOLUME == 1

\* x * f for a fraction f given in thousandths
Times(x, f) == (x * f) \div 1000

-----------------------------------------------------------------------------
(* Bounds of the model *)

\* add_position is called at most this many times (it bounds the clock, the
\* active positions and the trade history)
MaxAdds == 2
\* in SpecLoop a buy signal comes at most this many times
MaxLoopAdds == 1
\* SpecPath follows update_equity for this many calls
MaxPath == 3
\* SpecTrend calls validate_trend_alignment on trend lists up to this long
MaxTrendCandles == 3
\* SpecIndicators calls the indicators on candle lists up to this long
MaxCandles == 5
\* SpecCluster clusters lists of up to this many levels
MaxLevels == 4
\* SpecAnalytics logs up to this many trades
MaxTrades == 3
\* SpecCurve follows equity series of up to this many points
MaxCurve == 4
\* in SpecHold a buy signal comes at most this many times
MaxHoldAdds == 3
\* SpecHold follows a position for this many passes
MaxHeld == 12

-----------------------------------------------------------------------------
(* Fractions *)

Frac(n, d) == [num |-> n, den |-> d]
FracZero == Frac(0, 1)
\* a > b and a >= b for fractions with positive denominators
FracGT(a, b) == a.num * b.den > b.num * a.den
FracGE(a, b) == a.num * b.den >= b.num * a.den
FracEq(a, b) == a.num * b.den = b.num * a.den
\* a fraction against a number of thousandths
FracGEThousandths(a, t) == a.num * 1000 >= t * a.den

-----------------------------------------------------------------------------
(* RiskManager: equity and drawdown *)

NewPeak_Last(peak, new_equity) == new_equity

\* update_equity, "Update peak"
NewPeak(peak, new_equity) == IF new_equity > peak THEN new_equity ELSE peak

\* update_equity, "Calculate current drawdown" (peak # 0)
Drawdown(peak, new_equity) == Frac(peak - new_equity, peak)

NewMaxDrawdown_Last(maxdd, dd) == dd

\* update_equity, "Update max drawdown"
NewMaxDrawdown(maxdd, dd) == IF FracGT(dd, maxdd) THEN dd ELSE maxdd

BreakerAfter_AutoClear(active, dd) == FracGEThousandths(dd, MAX_DRAWDOWN_PERCENT)

BreakerAfter_Strict(active, dd) ==
    IF dd.num * 1000 > MAX_DRAWDOWN_PERCENT * dd.den THEN TRUE ELSE active

\* update_equity, "Check circuit breaker": the flag after the call
BreakerAfter(active, dd) ==
    IF FracGEThousandths(dd, MAX_DRAWDOWN_PERCENT)
    THEN (IF ~active THEN TRUE ELSE active)
    ELSE active

\* RiskManager.update_equity(new_equity).  With a peak of 0 the division
\* raises ZeroDivisionError after current_equity was assigned.
update_equity(new_equity) ==
    LET peak == NewPeak(peak_equity, new_equity) IN
    /\ current_equity' = new_equity
    /\ peak_equity' = peak
    /\ IF peak = 0
       THEN /\ ret' = [op |-> "update_equity", raised |-> TRUE, val |-> FracZero]
            /\ UNCHANGED <<max_drawdown, circuit_breaker_active>>
       ELSE LET dd == Drawdown(peak, new_equity) IN
            /\ max_drawdown' = NewMaxDrawdown(max_drawdown, dd)
            /\ circuit_breaker_active' = BreakerAfter(circuit_breaker_active, dd)
            /\ ret' = [op |-> "update_equity", raised |-> FALSE, val |-> dd]
    /\ UNCHANGED <<initial_equity, active_positions, trade_history, now,
                   candles_in_position, cycle, held>>

-----------------------------------------------------------------------------
(* RiskManager: positions *)

CanOpen_OffByOne(active, n) ==
    IF active THEN FALSE
    ELSE IF n > MAX_CONCURRENT_TRADES THEN FALSE
    ELSE TRUE

\* can_open_position: the boolean of the returned pair
CanOpen(active, n) ==
    IF active THEN FALSE
    ELSE IF n >= MAX_CONCURRENT_TRADES THEN FALSE
    ELSE TRUE

\* can_open_position: the reason of the returned pair
CanOpenReason(active, n) ==
    IF active THEN "Circuit breaker active due to max drawdown"
    ELSE IF n >= MAX_CONCURRENT_TRADES THEN "Maximum concurrent trades reached"
    ELSE "OK"

\* RiskManager.can_open_position()
can_open_position ==
    /\ ret' = [op |-> "can_open_position", raised |-> FALSE,
               val |-> <<CanOpen(circuit_breaker_active, Len(active_positions)),
                         CanOpenReason(circuit_breaker_active, Len(active_positions))>>]
    /\ UNCHANGED <<initial_equity, equityVars, active_positions, trade_history,
                   now, loopVars>>

\* add_position: the position dictionary it builds
NewPosition(entry_price, volume, stop_loss, t) ==
    [entry_price |-> entry_price,
     volume |-> volume,
     initial_volume |-> volume,
     stop_loss |-> stop_loss,
     highest_price |-> entry_price,
     trailing_stop_active |-> FALSE,
     profit_targets_hit |-> <<>>,
     entry_time |-> t,
     breakeven_stop_set |-> FALSE]

AddedTo_Only(positions, position) == <<position>>

\* add_position: the active list after the call
AddedTo(positions, position) == Append(positions, position)

\* RiskManager.add_position(entry_price, volume, stop_loss)
add_position(entry_price, volume, stop_loss) ==
    /\ now < MaxAdds
    /\ now' = now + 1
    /\ active_positions' =
           AddedTo(active_positions, NewPosition(entry_price, volume, stop_loss, now + 1))
    /\ ret' = [op |-> "add_position", raised |-> FALSE, val |-> <<now + 1>>]
    /\ UNCHANGED <<initial_equity, equityVars, trade_history, loopVars>>

\* "x in position['profit_targets_hit']"
Hit(position, tier) ==
    \E i \in 1..Len(position.profit_targets_hit) : position.profit_targets_hit[i] = tier

\* profit_pct >= t, profit_pct = (current_price - entry_price) / entry_price,
\* t in thousandths, entry_price > 0
ProfitAtLeast(position, current_price, t) ==
    (current_price - position.entry_price) * 1000 >= t * position.entry_price

WithHighest_Last(position, current_price) ==
    [position EXCEPT !.highest_price = current_price]

\* update_position, "Update highest price for trailing stop"
WithHighest(position, current_price) ==
    IF current_price > position.highest_price
    THEN [position EXCEPT !.highest_price = current_price]
    ELSE position

StopLossHit_Strict(position, current_price) == current_price < position.stop_loss

\* update_position, "1. Check stop loss"
StopLossHit(position, current_price) == current_price <= position.stop_loss

BreakevenDue_Strict(position, current_price) ==
    /\ ~position.breakeven_stop_set
    /\ (current_price - position.entry_price) * 1000
           > BREAKEVEN_STOP_TRIGGER * position.entry_price

\* update_position, "2. Move to breakeven after initial profit": the condition
BreakevenDue(position, current_price) ==
    /\ ~position.breakeven_stop_set
    /\ ProfitAtLeast(position, current_price, BREAKEVEN_STOP_TRIGGER)

WithBreakeven_Offset(position) ==
    [position EXCEPT
        !.stop_loss = Times(position.entry_price, 1000 - BREAKEVEN_STOP_TRIGGER),
        !.breakeven_stop_set = TRUE]

\* update_position, "2. Move to breakeven after initial profit": the position after
WithBreakeven(position) ==
    [position EXCEPT !.stop_loss = position.entry_price, !.breakeven_stop_set = TRUE]

ExitVolume_OfPercent(volume, size) == (volume * size) \div 100

\* update_position, "exit_volume = position['volume'] * PROFIT_TARGET_n_SIZE"
ExitVolume(volume, size) == Times(volume, size)

TierDue_Again(position, current_price, target, tier) ==
    ProfitAtLeast(position, current_price, target)

\* update_position, "3. Check profit targets": one branch of the if/elif chain
TierDue(position, current_price, target, tier) ==
    ProfitAtLeast(position, current_price, target) /\ ~Hit(position, tier)

WithTier_NoTrailing(position, size, tier) ==
    [position EXCEPT
        !.volume = position.volume - ExitVolume(position.volume, size),
        !.profit_targets_hit = Append(position.profit_targets_hit, tier)]

\* update_position, "3. Check profit targets": the position after a tier fired
WithTier(position, size, tier) ==
    [position EXCEPT
        !.volume = position.volume - ExitVolume(position.volume, size),
        !.profit_targets_hit = Append(position.profit_targets_hit, tier),
        !.trailing_stop_active = IF tier = "1" THEN TRUE ELSE position.trailing_stop_active]

TrailingStopPrice_Wide(position) ==
    Times(position.highest_price, 1000 - BREAKEVEN_STOP_TRIGGER)

\* update_position, "4. Update trailing stop": trailing_stop_price
TrailingStopPrice(position) ==
    Times(position.highest_price, 1000 - TRAILING_STOP_DISTANCE)

\* update_position, "if trailing_stop_price > position['stop_loss']"
TrailingRaises(position) == TrailingStopPrice(position) > position.stop_loss

Outcome(position, action, volume, reason) ==
    [pos |-> position, action |-> action, volume |-> volume, reason |-> reason]

\* update_position on a valid index: the position after the call and the
\* returned triple (action, volume, reason)
UpdatedPosition(position, current_price) ==
    LET p == WithHighest(position, current_price) IN
    IF StopLossHit(p, current_price)
    THEN Outcome(p, "full_exit", p.volume, "stop_loss")
    ELSE IF BreakevenDue(p, current_price)
    THEN Outcome(WithBreakeven(p), "update_stop", 0, "breakeven")
    ELSE IF TierDue(p, current_price, PROFIT_TARGET_3, "3")
    THEN Outcome(WithTier(p, PROFIT_TARGET_3_SIZE, "3"), "partial_exit",
                 ExitVolume(p.volume, PROFIT_TARGET_3_SIZE), "target_3")
    ELSE IF TierDue(p, current_price, PROFIT_TARGET_2, "2")
    THEN Outcome(WithTier(p, PROFIT_TARGET_2_SIZE, "2"), "partial_exit",
                 ExitVolume(p.volume, PROFIT_TARGET_2_SIZE), "target_2")
    ELSE IF TierDue(p, current_price, PROFIT_TARGET_1, "1")
    THEN Outcome(WithTier(p, PROFIT_TARGET_1_SIZE, "1"), "partial_exit",
                 ExitVolume(p.volume, PROFIT_TARGET_1_SIZE), "target_1")
    ELSE IF p.trailing_stop_active /\ TrailingRaises(p)
    THEN Outcome([p EXCEPT !.stop_loss = TrailingStopPrice(p)], "update_stop", 0, "trailing")
    ELSE Outcome(p, "hold", 0, "None")

\* RiskManager.update_position(position_idx, current_price), position_idx from 0;
\* ret keeps the arguments of the call next to what it returned
update_position(position_idx, current_price) ==
    /\ IF position_idx >= Len(active_positions)
       THEN /\ ret' = [op |-> "update_position", raised |-> FALSE,
                       args |-> <<position_idx, current_price>>,
                       val |-> <<"hold", 0, "None">>]
            /\ UNCHANGED active_positions
       ELSE LET o == UpdatedPosition(active_positions[position_idx + 1], current_price) IN
            /\ active_positions' = [active_positions EXCEPT ![position_idx + 1] = o.pos]
            /\ ret' = [op |-> "update_position", raised |-> FALSE,
                       args |-> <<position_idx, current_price>>,
                       val |-> <<o.action, o.volume, o.reason>>]
    /\ UNCHANGED <<initial_equity, equityVars, trade_history, now, loopVars>>

\* list.pop(position_idx): the list without its element position_idx (from 0)
Popped(positions, position_idx) ==
    [i \in 1..(Len(positions) - 1) |->
        IF i <= position_idx THEN positions[i] ELSE positions[i + 1]]

Pnl_OfVolume(position, exit_price) ==
    (exit_price - position.entry_price) * position.volume

\* remove_position: "Calculate final P&L"
Pnl(position, exit_price) == (exit_price - position.entry_price) * position.initial_volume

\* remove_position: the trade record
TradeRecord(position, exit_price, reason, t) ==
    [entry_price |-> position.entry_price,
     exit_price |-> exit_price,
     volume |-> position.initial_volume,
     pnl |-> Pnl(position, exit_price),
     pnl_pct |-> Frac(exit_price - position.entry_price, position.entry_price),
     entry_time |-> position.entry_time,
     exit_time |-> t,
     duration |-> t - position.entry_time,
     exit_reason |-> reason,
     profit_targets_hit |-> position.profit_targets_hit]

\* RiskManager.remove_position(position_idx, exit_price, reason), position_idx from 0;
\* ret keeps the arguments of the call and the entry_time of the record returned
remove_position(position_idx, exit_price, reason) ==
    /\ IF position_idx >= Len(active_positions)
       THEN /\ ret' = [op |-> "remove_position", raised |-> FALSE,
                       args |-> <<position_idx, exit_price, reason>>, val |-> <<>>]
            /\ UNCHANGED <<active_positions, trade_history>>
       ELSE LET rec == TradeRecord(active_positions[position_idx + 1], exit_price,
                                   reason, now) IN
            /\ active_positions' = Popped(active_positions, position_idx)
            /\ trade_history' = Append(trade_history, rec)
            /\ ret' = [op |-> "remove_position", raised |-> FALSE,
                       args |-> <<position_idx, exit_price, reason>>,
                       val |-> <<rec.entry_time>>]
    /\ UNCHANGED <<initial_equity, equityVars, now, loopVars>>

reset_circuit_breaker_KeepPeak ==
    /\ circuit_breaker_active' = FALSE
    /\ ret' = [op |-> "reset_circuit_breaker", raised |-> FALSE, val |-> <<>>]
    /\ UNCHANGED <<initial_equity, peak_equity, current_equity, max_drawdown,
                   active_positions, trade_history, now, loopVars>>

\* RiskManager.reset_circuit_breaker()
reset_circuit_breaker ==
    /\ circuit_breaker_active' = FALSE
    /\ peak_equity' = current_equity
    /\ ret' = [op |-> "reset_circuit_breaker", raised |-> FALSE, val |-> <<>>]
    /\ UNCHANGED <<initial_equity, current_equity, max_drawdown, active_positions,
                   trade_history, now, loopVars>>

-----------------------------------------------------------------------------
(* The RiskManager driven call by call *)

\* RiskManager.__init__(initial_equity); main.py globals before the loop;
\* last is the record of the last call
ConstructedWith(e, last) ==
    /\ initial_equity = e
    /\ peak_equity = e
    /\ current_equity = e
    /\ max_drawdown = FracZero
    /\ active_positions = <<>>
    /\ trade_history = <<>>
    /\ circuit_breaker_active = FALSE
    /\ now = 0
    /\ ret = last
    /\ candles_in_position = 0
    /\ cycle = [outcome |-> "none", price |-> 0, evaluated |-> <<>>, orders |-> <<>>,
                added |-> FALSE, data_points |-> <<>>, trend_aligned |-> FALSE,
                atr |-> 0, can_trade |-> FALSE, sized |-> <<>>,
                status_sum |-> 0, signal_sum |-> 0, asset_bal |-> 0]
    /\ equity_log = <<>>
    /\ held = <<>>

Constructed(e) == ConstructedWith(e, [op |-> "init", raised |-> FALSE, val |-> <<>>])

InitialEquities == {10000}

Init == \E e \in InitialEquities : Constructed(e)

\* Inputs of Spec: every RiskManager call, in any order
Equities == {9500, 10000, 11000}
EntryPrices == {100000}
Volumes == {1000}
StopLosses == {99000}
Prices == {99000, 102000}
ExitReasons == {"stop_loss"}

Next ==
    \/ \E e \in Equities : update_equity(e) /\ UNCHANGED equity_log
    \/ can_open_position
    \/ \E ep \in EntryPrices, v \in Volumes, sl \in StopLosses : add_position(ep, v, sl)
    \/ \E i \in 0..Len(active_positions), p \in Prices : update_position(i, p)
    \/ \E i \in 0..Len(active_positions), p \in Prices, r \in ExitReasons :
           remove_position(i, p, r)
    \/ reset_circuit_breaker

Spec == Init /\ [][Next]_vars

\* Inputs of SpecEquity: the equity calls alone, over more equity values
\* (9500 and 10450 are exactly 5% below the peaks 10000 and 11000)
EquityPath == {0, 9400, 9500, 9600, 10000, 10450, 10500, 11000}

NextEquity ==
    \/ \E e \in EquityPath : update_equity(e) /\ UNCHANGED equity_log
    \/ reset_circuit_breaker

SpecEquity == Init /\ [][NextEquity]_vars

\* Inputs of SpecPath: update_equity alone, MaxPath calls from construction on,
\* each call logged with the drawdown it returned
NextPath ==
    /\ Len(equity_log) < MaxPath
    /\ \E e \in EquityPath :
           /\ update_equity(e)
           /\ equity_log' = Append(equity_log, [equity |-> e, returned |-> ret'.val])

SpecPath == Init /\ [][NextPath]_vars

\* Inputs of SpecReset: MaxPath update_equity calls, each logged with what it
\* returned and whether it raised, and reset_circuit_breaker calls between
\* them
NextReset ==
    \/ /\ Len(equity_log) < MaxPath
       /\ \E e \in EquityPath :
              /\ update_equity(e)
              /\ equity_log' = Append(equity_log, [equity |-> e, returned |-> ret'.val,
                                                   raised |-> ret'.raised])
    \/ reset_circuit_breaker

SpecReset == Init /\ [][NextReset]_vars

\* Inputs of SpecPos: the life of one position, over more prices and with
\* initial stops below and above the entry price (101400 and 101500 lie just
\* below and on the breakeven trigger of an entry at 100000)
LifeVolumes == {1000}
LifeStopLosses == {99000, 103000}
LifePrices == {99000, 100000, 101400, 101500, 102000, 104000, 106000, 108000}

NextPos ==
    \/ /\ Len(active_positions) = 0
       /\ \E ep \in EntryPrices, v \in LifeVolumes, sl \in LifeStopLosses :
              add_position(ep, v, sl)
    \/ \E i \in 0..Len(active_positions), p \in LifePrices : update_position(i, p)

SpecPos == Init /\ [][NextPos]_vars

\* Inputs of SpecExample: the position of test_position_updates (entry 50000,
\* volume 0.1 = 100 thousandths, stop 49800) under update_position calls at
\* prices around its stop, its breakeven trigger (50750) and its targets
\* (51000, 52000, 53000)
ExampleEntryPrices == {50000}
ExampleVolumes == {100}
ExampleStopLosses == {49800}
ExamplePrices == {49800, 50100, 50900, 51200, 52000, 53000}

NextExample ==
    \/ /\ Len(active_positions) = 0
       /\ \E ep \in ExampleEntryPrices, v \in ExampleVolumes, sl \in ExampleStopLosses :
              add_position(ep, v, sl)
    \/ \E i \in 0..Len(active_positions), p \in ExamplePrices : update_position(i, p)

SpecExample == Init /\ [][NextExample]_vars

-----------------------------------------------------------------------------
(* main(): one pass of the while loop, from the fetches to the entry logic. *)
(* Volumes are in thousandths of an asset unit, signal sums in tenths.      *)

Min2(a, b) == IF a <= b THEN a ELSE b

calculate_position_size_KeepStop(equity, current_price, atr_value, volatility_factor) ==
    IF atr_value <= 0 \/ current_price <= 0
    THEN [size |-> 0, stop |-> current_price]
    ELSE LET stop_loss_distance == Times(atr_value, ATR_STOP_MULTIPLIER)
             base_position_size ==
                 (Times(equity, MAX_RISK_PERCENT) * 1000) \div stop_loss_distance
         IN [size |-> Min2(Times(base_position_size, volatility_factor),
                           Times((equity * 1000) \div current_price, 950)),
             stop |-> current_price - stop_loss_distance]

calculate_position_size_NoBuffer(equity, current_price, atr_value, volatility_factor) ==
    IF atr_value <= 0 \/ current_price <= 0
    THEN [size |-> 0, stop |-> 0]
    ELSE LET stop_loss_distance == Times(atr_value, ATR_STOP_MULTIPLIER)
             base_position_size ==
                 (Times(equity, MAX_RISK_PERCENT) * 1000) \div stop_loss_distance
         IN [size |-> Min2(Times(base_position_size, volatility_factor),
                           (equity * 1000) \div current_price),
             stop |-> current_price - stop_loss_distance]

\* RiskManager.calculate_position_size(current_price, atr_value, volatility_factor),
\* self.current_equity given as equity; the size in thousandths of a unit
calculate_position_size(equity, current_price, atr_value, volatility_factor) ==
    IF atr_value <= 0 \/ current_price <= 0
    THEN [size |-> 0, stop |-> 0]
    ELSE LET risk_amount == Times(equity, MAX_RISK_PERCENT)
             stop_loss_distance == Times(atr_value, ATR_STOP_MULTIPLIER)
             base_position_size == (risk_amount * 1000) \div stop_loss_distance
             adjusted_position_size == Times(base_position_size, volatility_factor)
             max_affordable == (equity * 1000) \div current_price
         IN [size |-> Min2(adjusted_position_size, Times(max_affordable, 950)),
             stop |-> current_price - stop_loss_distance]

\* RiskManager.calculate_position_size called on its own: it reads
\* current_equity and writes nothing
rm_calculate_position_size(current_price, atr_value, volatility_factor) ==
    LET sized == calculate_position_size(current_equity, current_price, atr_value,
                                         volatility_factor)
    IN /\ ret' = [op |-> "RiskManager.calculate_position_size", raised |-> FALSE,
                  args |-> <<current_price, atr_value, volatility_factor>>,
                  val |-> <<sized.size, sized.stop>>]
       /\ UNCHANGED <<initial_equity, equityVars, active_positions, trade_history,
                      now, loopVars>>

\* strategy.calculate_position_size(total_equity, current_price, atr_value,
\* max_risk_percent, atr_stop_multiplier): the volume in thousandths of a
\* unit, the two fractions in thousandths
strategy_calculate_position_size(total_equity, current_price, atr_value, max_risk_percent, atr_stop_multiplier) ==
    IF atr_value <= 0 \/ current_price <= 0
    THEN [size |-> 0, stop |-> 0]
    ELSE LET risk_amount_usdt == Times(total_equity, max_risk_percent)
             stop_loss_distance == Times(atr_value, atr_stop_multiplier)
             buy_volume == (risk_amount_usdt * 1000) \div stop_loss_distance
             max_affordable_volume == (total_equity * 1000) \div current_price
         IN [size |-> Min2(buy_volume, max_affordable_volume),
             stop |-> current_price - stop_loss_distance]

\* strategy.calculate_position_size called on its own: a module-level
\* function, it reads and writes no state
strategy_sizing(total_equity, current_price, atr_value, max_risk_percent, atr_stop_multiplier) ==
    LET sized == strategy_calculate_position_size(total_equity, current_price,
                     atr_value, max_risk_percent, atr_stop_multiplier)
    IN /\ ret' = [op |-> "strategy.calculate_position_size", raised |-> FALSE,
                  args |-> <<total_equity, current_price, atr_value,
                             max_risk_percent, atr_stop_multiplier>>,
                  val |-> <<sized.size, sized.stop>>]
       /\ UNCHANGED <<initial_equity, equityVars, active_positions, trade_history,
                      now, loopVars>>

\* What a pass has done so far: the RiskManager lists, candles_in_position,
\* the orders handed to place_order, the positions evaluated (what
\* update_position returned and whether the order that followed was
\* confirmed), whether an exception ended the pass, whether a position was
\* added, what can_open_position returned in the entry logic (FALSE until it
\* is called) and what calculate_position_size returned (<<>> until it is
\* called)
Pass(positions, history, candles) ==
    [positions |-> positions, history |-> history, candles |-> candles,
     orders |-> <<>>, evaluated |-> <<>>, raised |-> FALSE, added |-> FALSE,
     can_trade |-> FALSE, sized |-> <<>>]

\* kraken_api.place_order(pair, side, volume) as main() sees it: below
\* MIN_ASSET_VOLUME no request is sent and None is returned; otherwise the
\* exchange confirms the order or not
PlaceOrder(st, side, volume) ==
    IF volume < MIN_ASSET_VOLUME
    THEN {[st EXCEPT !.orders = Append(@, [side |-> side, volume |-> volume,
                                           sent |-> FALSE, confirmed |-> FALSE])]}
    ELSE {[st EXCEPT !.orders = Append(@, [side |-> side, volume |-> volume,
                                           sent |-> TRUE, confirmed |-> c])] :
              c \in BOOLEAN}

Confirmed(st) == st.orders[Len(st.orders)].confirmed

\* main(), "9. Handle existing positions": the body of the for loop for one
\* index, and the passes it can end in
HandleOne(idx, st, price) ==
    LET o == UpdatedPosition(st.positions[idx + 1], price)
        s1 == [st EXCEPT !.positions[idx + 1] = o.pos]
        Seen(s, confirmed) ==
            [s EXCEPT !.evaluated = Append(@, [entry_time |-> o.pos.entry_time,
                                               action |-> o.action,
                                               volume |-> o.volume,
                                               reason |-> o.reason,
                                               confirmed |-> confirmed])]
    IN
    IF o.action = "full_exit"
    THEN {IF Confirmed(s2)
          THEN [Seen(s2, TRUE) EXCEPT
                   !.history = Append(@, TradeRecord(o.pos, price, o.reason, now)),
                   !.positions = Popped(@, idx),
                   !.candles = 0]
          ELSE Seen(s2, FALSE) : s2 \in PlaceOrder(s1, "sell", o.volume)}
    ELSE IF o.action = "partial_exit"
    THEN {Seen(s2, Confirmed(s2)) : s2 \in PlaceOrder(s1, "sell", o.volume)}
    ELSE {Seen(s1, FALSE)}

RECURSIVE HandleFrom(_, _, _)
\* "for idx, position in enumerate(risk_manager.active_positions)": the list
\* iterator stops when idx reaches the current length of the list
HandleFrom(idx, st, price) ==
    IF idx >= Len(st.positions)
    THEN {st}
    ELSE UNION {HandleFrom(idx + 1, s, price) : s \in HandleOne(idx, st, price)}

RECURSIVE TimeExitFrom(_, _, _, _)
\* "Time-based exit": the for loop over the copy active_positions[:].  When
\* remove_position finds idx out of range it returns None and
\* trade_analytics.log_trade(None) raises TypeError, which ends the pass.
TimeExitFrom(idx, copy, st, price) ==
    IF idx >= Len(copy)
    THEN {[st EXCEPT !.candles = 0]}
    ELSE UNION {IF idx >= Len(s.positions)
                THEN {[s EXCEPT !.raised = TRUE]}
                ELSE TimeExitFrom(idx + 1, copy,
                         [s EXCEPT
                             !.history = Append(@, TradeRecord(s.positions[idx + 1],
                                                               price, "time_exit", now)),
                             !.positions = Popped(@, idx)],
                         price) :
                    s \in PlaceOrder(st, "sell", copy[idx + 1].volume)}

\* main(), step 9 as a whole
Managed(st, price) ==
    IF Len(st.positions) > 0
    THEN UNION {IF s.candles >= MAX_CANDLES_IN_TRADE
                THEN TimeExitFrom(0, s.positions, s, price)
                ELSE {s} :
                    s \in HandleFrom(0, [st EXCEPT !.candles = @ + 1], price)}
    ELSE {st}

RECURSIVE SumOver(_, _)
\* sum(v for k, v in data_points.items() if k in keys)
SumOver(data_points, keys) ==
    IF keys = {}
    THEN 0
    ELSE LET k == CHOOSE x \in keys : TRUE
         IN data_points[k] + SumOver(data_points, keys \ {k})

SignalSum_All(data_points) == SumOver(data_points, DOMAIN data_points)

\* main(), "8. Calculate primary signal": signal_sum, in tenths
SignalSum(data_points) ==
    SumOver(data_points, DOMAIN data_points \ {"HR_TREND", "HL", "REGIME"})

\* print_status, "Calculate signal sum excluding long-term filters":
\* filtered_sum, in tenths
StatusSum(data_points) ==
    SumOver(data_points, DOMAIN data_points \ {"HR_TREND", "HL"})

\* main(), "10. Entry logic".  At a price of 0 "quote_bal / price" raises
\* ZeroDivisionError, which ends the pass.
Entered(st, in, breaker, equity) ==
    LET can_trade == CanOpen(breaker, Len(st.positions))
        s0 == [st EXCEPT !.can_trade = can_trade]
    IN
    IF can_trade /\ in.asset_bal < MIN_ASSET_VOLUME
    THEN IF SignalSum(in.data_points) > 20 /\ in.trend_aligned /\ in.atr > 0
         THEN LET sized == calculate_position_size(equity, in.price, in.atr,
                               IF in.regime = "ranging" THEN 700 ELSE 1000)
                  s1 == [s0 EXCEPT !.sized = <<sized.size, sized.stop>>]
                  max_affordable == (in.quote_bal * 1000) \div in.price
                  position_size == Min2(sized.size, Times(max_affordable, 950))
              IN IF in.price = 0
                 THEN {[s1 EXCEPT !.raised = TRUE]}
                 ELSE IF position_size >= MIN_ASSET_VOLUME
                 THEN {IF Confirmed(s)
                       THEN [s EXCEPT
                                !.positions = AddedTo(@, NewPosition(in.price,
                                                  position_size, sized.stop, now + 1)),
                                !.candles = 0,
                                !.added = TRUE]
                       ELSE s : s \in PlaceOrder(s1, "buy", position_size)}
                 ELSE {s1}
         ELSE IF SignalSum(in.data_points) < -20 /\ in.asset_bal >= MIN_ASSET_VOLUME
         THEN PlaceOrder(s0, "sell", in.asset_bal)
         ELSE {s0}
    ELSE {s0}

\* the record kept of a pass; asset_bal is the asset balance fetched in step
\* 4 (in thousandths, 0 in a pass that does not get there), status_sum is the "Signal Sum" print_status
\* computes from the data_points and signal_sum the sum step 8 computes from
\* them (both 0 in a pass that does not get there)
CycleLog(outcome, in, s) ==
    [outcome |-> outcome, price |-> in.price, evaluated |-> s.evaluated,
     orders |-> s.orders, added |-> s.added, data_points |-> in.data_points,
     trend_aligned |-> in.trend_aligned, atr |-> in.atr,
     can_trade |-> s.can_trade, sized |-> s.sized,
     status_sum |-> IF in.status_ok THEN StatusSum(in.data_points) ELSE 0,
     signal_sum |-> IF in.status_ok THEN SignalSum(in.data_points) ELSE 0,
     asset_bal |-> in.asset_bal]

\* no market data seen in a pass
NoInput ==
    [price |-> 0, data_points |-> <<>>, trend_aligned |-> FALSE, atr |-> 0,
     status_ok |-> FALSE, asset_bal |-> 0]

CycleSkipped_ZeroEquity(fetch) ==
    /\ cycle' = CycleLog(fetch, NoInput, Pass(<<>>, <<>>, 0))
    /\ ret' = [op |-> "main", raised |-> FALSE, val |-> <<>>]
    /\ current_equity' = 0
    /\ UNCHANGED <<initial_equity, peak_equity, max_drawdown, circuit_breaker_active,
                   active_positions, trade_history, now, candles_in_position,
                   equity_log, held>>

\* main(): a pass in which a fetch returned nothing ("continue")
CycleSkipped(fetch) ==
    /\ cycle' = CycleLog(fetch, NoInput, Pass(<<>>, <<>>, 0))
    /\ ret' = [op |-> "main", raised |-> FALSE, val |-> <<>>]
    /\ UNCHANGED <<initial_equity, equityVars, active_positions, trade_history, now,
                   candles_in_position, equity_log, held>>

\* main(): a pass with all market data, steps 4 to 10.  print_status fetches
\* the price again and raises TypeError when that fetch returns None; the
\* except clause of the loop ends the pass there.
Cycle(in) ==
    LET total_equity == in.quote_bal + (in.asset_bal * in.price) \div 1000
        peak == NewPeak(peak_equity, total_equity)
        dd == Drawdown(peak, total_equity)
        breaker == BreakerAfter(circuit_breaker_active, dd)
        st0 == Pass(active_positions, trade_history, candles_in_position)
        finals == IF ~in.status_ok
                  THEN {[st0 EXCEPT !.raised = TRUE]}
                  ELSE UNION {IF s.raised THEN {s}
                              ELSE Entered(s, in, breaker, total_equity) :
                                  s \in Managed(st0, in.price)}
    IN
    /\ current_equity' = total_equity
    /\ peak_equity' = peak
    /\ max_drawdown' = NewMaxDrawdown(max_drawdown, dd)
    /\ circuit_breaker_active' = breaker
    /\ \E s \in finals :
           /\ active_positions' = s.positions
           /\ trade_history' = s.history
           /\ candles_in_position' = s.candles
           /\ now' = IF s.added THEN now + 1 ELSE now
           /\ cycle' = CycleLog(IF s.raised THEN "raised" ELSE "done", in, s)
           /\ ret' = [op |-> "main", raised |-> s.raised, val |-> <<>>]
    /\ UNCHANGED <<initial_equity, equity_log>>

\* Inputs of SpecLoop.  With an ATR of 500 and an equity of 20000 the
\* risk-based size, 1000, is the smaller one, and a buy signal comes at the
\* price 10000, so that every division above is exact.
LoopFetches == {"no_primary", "no_trend", "no_ticker", "no_depth", "no_balance"}
\* data_points, scores in tenths: a buy signal (sum 30 without HR_TREND, HL
\* and REGIME), one that is a buy signal only with the three counted in (20
\* without them, 45 with), and a sell signal (-30)
Bullish == [RSI |-> 10, MACD |-> 10, SR |-> 10, HR_TREND |-> 10, HL |-> 0, REGIME |-> 5]
Borderline == [RSI |-> 10, MACD |-> 10, SR |-> 0, HR_TREND |-> 10, HL |-> 10, REGIME |-> 5]
Bearish == [RSI |-> -10, MACD |-> -10, SR |-> -10, HR_TREND |-> -10, HL |-> 0, REGIME |-> -5]
LoopDataPoints == {Bullish, Borderline, Bearish}
LoopPrices == {10000, 10200, 10500, 10700}
LoopQuoteBalances == {18000, 20000}
LoopInputs ==
    {in \in [price : LoopPrices, quote_bal : LoopQuoteBalances, asset_bal : {0},
             data_points : LoopDataPoints, trend_aligned : BOOLEAN, atr : {0, 500},
             regime : {"trending"}, status_ok : BOOLEAN] :
        /\ SignalSum(in.data_points) > 20 => in.price = 10000
        /\ SignalSum(in.data_points) <= 20 => (in.trend_aligned /\ in.atr = 500)}

InitLoop == Constructed(20000)

NextLoop ==
    \/ \E f \in LoopFetches : CycleSkipped(f)
    \/ \E in \in LoopInputs :
           /\ SignalSum(in.data_points) > 20 => now < MaxLoopAdds
           /\ Cycle(in)
           /\ UNCHANGED held

SpecLoop == InitLoop /\ [][NextLoop]_vars

\* Inputs of SpecTwo: passes of main() that open two positions at the price
\* 10000, each with its stop at 10000 - 2 * 500 = 9000, and passes at 10000
\* and at 9000 that manage them
TwoInputs ==
    {in \in [price : {9000, 10000}, quote_bal : {20000}, asset_bal : {0},
             data_points : {Bullish, Bearish}, trend_aligned : {TRUE}, atr : {500},
             regime : {"trending"}, status_ok : {TRUE}] :
        SignalSum(in.data_points) > 20 => in.price = 10000}

NextTwo ==
    \E in \in TwoInputs :
        /\ SignalSum(in.data_points) > 20 => now < MAX_CONCURRENT_TRADES
        /\ Cycle(in)
        /\ UNCHANGED held

SpecTwo == InitLoop /\ [][NextTwo]_vars

\* held after a pass: a position that was active before the pass has been
\* through one pass more, one opened in the pass through none
Aged(passes, positions) ==
    [t \in {positions[i].entry_time : i \in 1..Len(positions)} |->
        IF t \in DOMAIN passes THEN passes[t] + 1 ELSE 0]

\* Inputs of SpecHold: passes of main() with all market data, at the entry
\* price 10000 and at the stop 9000, with an asset balance of 0 or of half
\* a unit, in which the exchange confirms every sell order; positions are
\* followed for MaxHeld passes
HoldInputs ==
    {in \in [price : {9000, 10000}, quote_bal : {20000}, asset_bal : {0, 500},
             data_points : {Bullish, Bearish}, trend_aligned : {TRUE}, atr : {500},
             regime : {"trending"}, status_ok : {TRUE}] :
        SignalSum(in.data_points) > 20 => in.price = 10000}

NextHold ==
    \E in \in HoldInputs :
        /\ SignalSum(in.data_points) > 20 => now < MaxHoldAdds
        /\ \A t \in DOMAIN held : held[t] < MaxHeld
        /\ Cycle(in)
        /\ \A k \in 1..Len(cycle'.orders) :
               cycle'.orders[k].side = "sell" => cycle'.orders[k].confirmed
        /\ held' = Aged(held, active_positions')

SpecHold == InitLoop /\ [][NextHold]_vars

\* Inputs of SpecSize: the two sizing functions called on their own, the
\* equity moved by update_equity between the calls, and passes of main()
\* in which the sizing inputs are not positive.  Prices, ATRs and
\* equities are chosen so that every quotient is exact.
SizeEquities == {0, 10000, 20000}
SizePrices == {-100, 0, 10000, 50000}
SizeAtrs == {-5, 0, 100, 500}
SizeFactors == {700, 1000}
SizeRisks == {50}
SizeMultipliers == {2000}
\* passes of main() with a buy signal and a price or an ATR that is not
\* positive
SizeCycleInputs ==
    {in \in [price : {-100, 0, 10000}, quote_bal : {10000}, asset_bal : {0},
             data_points : {Bullish}, trend_aligned : {TRUE}, atr : {-5, 0, 500},
             regime : {"trending"}, status_ok : {TRUE}] :
        in.price <= 0 \/ in.atr <= 0}

NextSize ==
    \/ \E e \in SizeEquities : update_equity(e) /\ UNCHANGED equity_log
    \/ \E p \in SizePrices, a \in SizeAtrs, f \in SizeFactors :
           rm_calculate_position_size(p, a, f)
    \/ \E e \in SizeEquities, p \in SizePrices, a \in SizeAtrs,
          r \in SizeRisks, m \in SizeMultipliers :
           strategy_sizing(e, p, a, r, m)
    \/ \E in \in SizeCycleInputs : Cycle(in) /\ UNCHANGED held

SpecSize == Init /\ [][NextSize]_vars

-----------------------------------------------------------------------------
(* indicators.py, multi_timeframe.py: functions of candle lists.  A candle  *)
(* is a record of its open, high, low, close and volume; floats are exact   *)
(* rationals [num, den] in lowest terms with den > 0; None is a record of   *)
(* its own.                                                                  *)

SMA_PERIOD == 20

None == [none |-> TRUE]

Abs(x) == IF x < 0 THEN -x ELSE x

RECURSIVE Gcd(_, _)
Gcd(a, b) == IF b = 0 THEN a ELSE Gcd(b, a % b)

\* the float n / d, d # 0
Rat(n, d) ==
    LET g == Gcd(Abs(n), Abs(d))
        sign == IF d < 0 THEN -1 ELSE 1
    IN [num |-> (sign * n) \div g, den |-> Abs(d) \div g]

RatOf(n) == [num |-> n, den |-> 1]
RatAdd(a, b) == Rat(a.num * b.den + b.num * a.den, a.den * b.den)
RatSub(a, b) == Rat(a.num * b.den - b.num * a.den, a.den * b.den)
RatMul(a, b) == Rat(a.num * b.num, a.den * b.den)
RatDiv(a, b) == Rat(a.num * b.den, a.den * b.num)
RatLT(a, b) == a.num * b.den < b.num * a.den
RatLE(a, b) == a.num * b.den <= b.num * a.den
RatAbs(a) == [num |-> Abs(a.num), den |-> a.den]

\* data[-k:] for 0 < k
LastOf(data, k) ==
    IF k >= Len(data) THEN data ELSE SubSeq(data, Len(data) - k + 1, Len(data))

RECURSIVE SumOf(_)
\* sum(data) for a list of integers
SumOf(data) == IF data = <<>> THEN 0 ELSE data[1] + SumOf(Tail(data))

\* [float(c[4]) for c in ohlc_data]
Closes(ohlc_data) == [i \in 1..Len(ohlc_data) |-> ohlc_data[i].c]

calculate_sma_Short(ohlc_data, period) ==
    IF Len(ohlc_data) < period - 1
    THEN None
    ELSE Rat(SumOf(LastOf(Closes(ohlc_data), period)), period)

\* calculate_sma(ohlc_data, period), 0 < period
calculate_sma(ohlc_data, period) ==
    IF Len(ohlc_data) < period
    THEN None
    ELSE Rat(SumOf(LastOf(Closes(ohlc_data), period)), period)

\* get_candle_info(candle): the properties the callers modelled here read
get_candle_info(candle) ==
    [o |-> candle.o, h |-> candle.h, l |-> candle.l, c |-> candle.c, v |-> candle.v,
     is_bullish |-> candle.c > candle.o,
     is_bearish |-> candle.c < candle.o,
     body |-> Abs(candle.c - candle.o),
     total_range |-> candle.h - candle.l]

\* check_hourly_trend(hourly_ohlc).  A candle with close # open and high =
\* low makes "body / total_range" raise ZeroDivisionError.
check_hourly_trend(hourly_ohlc) ==
    IF Len(hourly_ohlc) < 1
    THEN [raised |-> FALSE, val |-> 0]
    ELSE LET latest_candle == get_candle_info(hourly_ohlc[Len(hourly_ohlc)])
             strong == RatLT(Rat(1, 2),
                             Rat(latest_candle.body, latest_candle.total_range))
         IN IF (latest_candle.is_bullish \/ latest_candle.is_bearish)
                  /\ latest_candle.total_range = 0
            THEN [raised |-> TRUE, val |-> 0]
            ELSE IF latest_candle.is_bullish /\ strong
            THEN [raised |-> FALSE, val |-> 1]
            ELSE IF latest_candle.is_bearish /\ strong
            THEN [raised |-> FALSE, val |-> -1]
            ELSE [raised |-> FALSE, val |-> 0]

validate_trend_alignment_NoSma(primary_signal, trend_data) ==
    IF Len(trend_data) < 2
    THEN [raised |-> FALSE, val |-> FALSE]
    ELSE LET trend_direction == check_hourly_trend(trend_data)
         IN IF trend_direction.raised
            THEN [raised |-> TRUE, val |-> FALSE]
            ELSE [raised |-> FALSE,
                  val |-> \/ primary_signal > 0 /\ trend_direction.val >= 0
                          \/ primary_signal < 0 /\ trend_direction.val <= 0]

\* validate_trend_alignment(primary_signal, trend_data)
validate_trend_alignment(primary_signal, trend_data) ==
    IF Len(trend_data) < 2
    THEN [raised |-> FALSE, val |-> FALSE]
    ELSE LET trend_direction == check_hourly_trend(trend_data)
             trend_sma == calculate_sma(trend_data, Min2(SMA_PERIOD, Len(trend_data)))
             current_trend_candle == get_candle_info(trend_data[Len(trend_data)])
         IN IF trend_direction.raised
            THEN [raised |-> TRUE, val |-> FALSE]
            ELSE IF primary_signal > 0
            THEN [raised |-> FALSE,
                  val |-> /\ trend_direction.val >= 0
                          /\ (trend_sma = None
                                \/ RatLE(trend_sma, RatOf(current_trend_candle.c)))]
            ELSE IF primary_signal < 0
            THEN [raised |-> FALSE,
                  val |-> /\ trend_direction.val <= 0
                          /\ (trend_sma = None
                                \/ RatLE(RatOf(current_trend_candle.c), trend_sma))]
            ELSE [raised |-> FALSE, val |-> FALSE]

\* a function of its arguments called on its own: ret keeps the call, no
\* state is read or written
Returned(op, args, raised, val) ==
    /\ ret' = [op |-> op, raised |-> raised, args |-> args, val |-> val]
    /\ UNCHANGED <<initial_equity, equityVars, active_positions, trade_history,
                   now, loopVars>>

call_validate_trend_alignment(primary_signal, trend_data) ==
    LET r == validate_trend_alignment(primary_signal, trend_data)
    IN Returned("validate_trend_alignment", <<primary_signal, trend_data>>,
                r.raised, <<r.val>>)

\* Inputs of SpecTrend: trend candles with a body of 80%, of exactly 50% and
\* of less than 50% of their range in both directions and one without a
\* range, in lists of up to MaxTrendCandles
StrongBull == [o |-> 100, h |-> 105, l |-> 100, c |-> 104, v |-> 10]
HalfBull == [o |-> 100, h |-> 103, l |-> 99, c |-> 102, v |-> 10]
WeakBull == [o |-> 100, h |-> 106, l |-> 98, c |-> 101, v |-> 10]
Flat == [o |-> 100, h |-> 100, l |-> 100, c |-> 100, v |-> 10]
WeakBear == [o |-> 100, h |-> 102, l |-> 94, c |-> 99, v |-> 10]
HalfBear == [o |-> 100, h |-> 101, l |-> 97, c |-> 98, v |-> 10]
StrongBear == [o |-> 100, h |-> 100, l |-> 95, c |-> 96, v |-> 10]
TrendCandles == {StrongBull, HalfBull, WeakBull, Flat, WeakBear, HalfBear, StrongBear}
PrimarySignals == {-1, 0, 1}

ListsOf(S, n) == UNION {[1..k -> S] : k \in 0..n}

\* the state in which a function of one of the lists in S is about to be
\* called on it
Given(S) ==
    \E e \in InitialEquities, x \in S :
        ConstructedWith(e, [op |-> "input", raised |-> FALSE, args |-> <<x>>,
                            val |-> <<>>])

InitTrend == Given(ListsOf(TrendCandles, MaxTrendCandles))

NextTrend ==
    /\ ret.op = "input"
    /\ \E d \in PrimarySignals : call_validate_trend_alignment(d, ret.args[1])

SpecTrend == InitTrend /\ [][NextTrend]_vars

-----------------------------------------------------------------------------
(* indicators.py: the indicators of evaluate_data_points_verbose, each with *)
(* its period as a parameter, as in the source.                             *)

VOLUME_SPIKE_THRESHOLD == 1500
REGIME_TREND_THRESHOLD == 25

\* the result of a numpy operation on 0.0 / 0.0
NaN == [nan |-> TRUE]

\* max(a, b)
MaxOf(a, b) == IF a > b THEN a ELSE b

\* np.mean(data) of a non-empty list of integers
Mean(data) == Rat(SumOf(data), Len(data))

\* true_ranges: one entry for each candle after the first
TrueRanges(ohlc_data) ==
    [i \in 1..(Len(ohlc_data) - 1) |->
        LET current_h == ohlc_data[i + 1].h
            current_l == ohlc_data[i + 1].l
            previous_c == ohlc_data[i].c
        IN MaxOf(current_h - current_l,
                MaxOf(Abs(current_h - previous_c), Abs(current_l - previous_c)))]

\* calculate_atr(ohlc_data, period), 0 < period
calculate_atr(ohlc_data, period) ==
    IF Len(ohlc_data) < period + 1
    THEN None
    ELSE LET true_ranges == TrueRanges(ohlc_data)
         IN IF Len(true_ranges) < period
            THEN None
            ELSE Rat(SumOf(LastOf(true_ranges, period)), period)

\* np.diff(closes)
Deltas(closes) == [i \in 1..(Len(closes) - 1) |-> closes[i + 1] - closes[i]]

\* np.where(deltas > 0, deltas, 0)
Gains(deltas) == [i \in 1..Len(deltas) |-> IF deltas[i] > 0 THEN deltas[i] ELSE 0]

\* np.where(deltas < 0, -deltas, 0)
Losses(deltas) == [i \in 1..Len(deltas) |-> IF deltas[i] < 0 THEN -deltas[i] ELSE 0]

calculate_rsi_AllDeltas(ohlc_data, period) ==
    IF Len(ohlc_data) < period + 1
    THEN None
    ELSE LET deltas == Deltas(Closes(ohlc_data))
             avg_gain == Mean(Gains(deltas))
             avg_loss == Mean(Losses(deltas))
         IN IF avg_loss.num = 0
            THEN RatOf(100)
            ELSE LET rs == RatDiv(avg_gain, avg_loss)
                 IN RatSub(RatOf(100), RatDiv(RatOf(100), RatAdd(RatOf(1), rs)))

\* calculate_rsi(ohlc_data, period), 0 < period
calculate_rsi(ohlc_data, period) ==
    IF Len(ohlc_data) < period + 1
    THEN None
    ELSE LET deltas == Deltas(Closes(ohlc_data))
             avg_gain == Mean(LastOf(Gains(deltas), period))
             avg_loss == Mean(LastOf(Losses(deltas), period))
         IN IF avg_loss.num = 0
            THEN RatOf(100)
            ELSE LET rs == RatDiv(avg_gain, avg_loss)
                 IN RatSub(RatOf(100), RatDiv(RatOf(100), RatAdd(RatOf(1), rs)))

\* _calculate_ema_array(data, period) for a non-empty array of floats
calculate_ema_array(data, period) ==
    LET multiplier == Rat(2, period + 1)
        ema[i \in 1..Len(data)] ==
            IF i = 1
            THEN data[1]
            ELSE RatAdd(RatMul(data[i], multiplier),
                        RatMul(ema[i - 1], RatSub(RatOf(1), multiplier)))
    IN [i \in 1..Len(data) |-> ema[i]]

\* calculate_macd(ohlc_data, fast, slow, signal): (macd_line, signal_line,
\* histogram)
calculate_macd(ohlc_data, fast, slow, signal) ==
    IF Len(ohlc_data) < slow + signal
    THEN <<None, None, None>>
    ELSE LET closes == [i \in 1..Len(ohlc_data) |-> RatOf(ohlc_data[i].c)]
             ema_fast_array == calculate_ema_array(closes, fast)
             ema_slow_array == calculate_ema_array(closes, slow)
             macd_array == [i \in 1..Len(closes) |->
                               RatSub(ema_fast_array[i], ema_slow_array[i])]
             signal_array == calculate_ema_array(macd_array, signal)
             n == Len(closes)
         IN <<macd_array[n], signal_array[n], RatSub(macd_array[n], signal_array[n])>>

\* Floats where rounding decides the result: _cluster_levels compares
\* quotients with a threshold they can equal up to rounding.  A float is
\* m * 2^e with a significand m of MantissaBits bits (53 in CPython, scaled
\* down here), every operation rounding its exact result to the nearest such
\* value, ties to the even significand.
MantissaBits == 12

RECURSIVE Pow2(_)
Pow2(k) == IF k = 0 THEN 1 ELSE 2 * Pow2(k - 1)

RECURSIVE RoundedTo(_, _, _)
\* the float nearest to (n / d) * 2^e for n >= 0 and d > 0
RoundedTo(n, d, e) ==
    IF n = 0 THEN [m |-> 0, e |-> 0]
    ELSE IF n >= Pow2(MantissaBits) * d THEN RoundedTo(n, 2 * d, e + 1)
    ELSE IF n < Pow2(MantissaBits - 1) * d THEN RoundedTo(2 * n, d, e - 1)
    ELSE LET q == n \div d
             r == n % d
             m == IF 2 * r > d \/ (2 * r = d /\ q % 2 = 1) THEN q + 1 ELSE q
         IN IF m = Pow2(MantissaBits)
            THEN [m |-> Pow2(MantissaBits - 1), e |-> e + 1]
            ELSE [m |-> m, e |-> e]

\* the float of a literal or of an integer: n / d, n >= 0
FloatOf(n, d) == RoundedTo(n, d, 0)

FloatNeg(a) == [m |-> -a.m, e |-> a.e]
FloatAbs(a) == [m |-> Abs(a.m), e |-> a.e]

\* the exponent both significands are brought to before they are added or
\* compared
CommonExponent(a, b) ==
    IF a.m = 0 THEN b.e ELSE IF b.m = 0 THEN a.e ELSE IF a.e < b.e THEN a.e ELSE b.e

\* the significand of a at the exponent e <= a.e
ShiftedTo(a, e) == IF a.m = 0 THEN 0 ELSE a.m * Pow2(a.e - e)

\* a + b
FloatAdd(a, b) ==
    LET e == CommonExponent(a, b)
        n == ShiftedTo(a, e) + ShiftedTo(b, e)
    IN IF n < 0 THEN FloatNeg(RoundedTo(-n, 1, e)) ELSE RoundedTo(n, 1, e)

\* a - b
FloatSub(a, b) == FloatAdd(a, FloatNeg(b))

\* a / b for b > 0
FloatDiv(a, b) ==
    IF a.m < 0
    THEN FloatNeg(RoundedTo(-a.m, b.m, a.e - b.e))
    ELSE RoundedTo(a.m, b.m, a.e - b.e)

\* a < b
FloatLT(a, b) ==
    LET e == CommonExponent(a, b) IN ShiftedTo(a, e) < ShiftedTo(b, e)

RECURSIVE Inserted(_, _)
\* a sorted list of floats with one more float in its place
Inserted(x, sorted) ==
    IF sorted = <<>> THEN <<x>>
    ELSE IF ~FloatLT(sorted[1], x) THEN <<x>> \o sorted
    ELSE <<sorted[1]>> \o Inserted(x, Tail(sorted))

RECURSIVE Sorted(_)
\* sorted(levels)
Sorted(levels) ==
    IF levels = <<>> THEN <<>> ELSE Inserted(levels[1], Sorted(Tail(levels)))

RECURSIVE FloatSum(_, _)
\* sum(): the entries of data added to start from left to right
FloatSum(start, data) ==
    IF data = <<>> THEN start ELSE FloatSum(FloatAdd(start, data[1]), Tail(data))

\* sum(current_cluster) / len(current_cluster)
ClusterAverage(current_cluster) ==
    FloatDiv(FloatSum(FloatOf(0, 1), current_cluster), FloatOf(Len(current_cluster), 1))

\* abs(level - current_cluster[-1]) / current_cluster[-1] < threshold
Chained(level, current_cluster, threshold) ==
    LET last == current_cluster[Len(current_cluster)]
    IN FloatLT(FloatDiv(FloatAbs(FloatSub(level, last)), last), threshold)

RECURSIVE ClusterLoop(_, _, _, _)
\* the loop of _cluster_levels over levels[1:] and the final cluster
ClusterLoop(rest, current_cluster, clustered, threshold) ==
    IF rest = <<>>
    THEN Append(clustered, ClusterAverage(current_cluster))
    ELSE IF Chained(rest[1], current_cluster, threshold)
    THEN ClusterLoop(Tail(rest), Append(current_cluster, rest[1]), clustered, threshold)
    ELSE ClusterLoop(Tail(rest), <<rest[1]>>,
                     Append(clustered, ClusterAverage(current_cluster)), threshold)

\* _cluster_levels(levels, threshold) for positive levels
cluster_levels(levels, threshold) ==
    IF levels = <<>>
    THEN <<>>
    ELSE LET sorted == Sorted(levels)
         IN ClusterLoop(Tail(sorted), <<sorted[1]>>, <<>>, threshold)

\* the entries data[i], i in 3..len - 2, that are below (sign 1) or above
\* (sign -1) their two neighbours on both sides, in the order of the list
RECURSIVE LocalExtrema(_, _, _)
LocalExtrema(data, i, sign) ==
    IF i > Len(data) - 2
    THEN <<>>
    ELSE (IF /\ sign * data[i] < sign * data[i - 1]
             /\ sign * data[i] < sign * data[i - 2]
             /\ sign * data[i] < sign * data[i + 1]
             /\ sign * data[i] < sign * data[i + 2]
          THEN <<FloatOf(data[i], 1)>>
          ELSE <<>>) \o LocalExtrema(data, i + 1, sign)

\* detect_support_resistance(ohlc_data, lookback), 0 < lookback
detect_support_resistance(ohlc_data, lookback) ==
    IF Len(ohlc_data) < lookback
    THEN <<(<<>>), (<<>>)>>
    ELSE LET recent_data == LastOf(ohlc_data, lookback)
             highs == [i \in 1..Len(recent_data) |-> recent_data[i].h]
             lows == [i \in 1..Len(recent_data) |-> recent_data[i].l]
             support_levels == LocalExtrema(lows, 3, 1)
             resistance_levels == LocalExtrema(highs, 3, -1)
         IN <<cluster_levels(support_levels, FloatOf(5, 1000)),
              cluster_levels(resistance_levels, FloatOf(5, 1000))>>

\* analyze_volume(ohlc_data, lookback), 0 < lookback: (volume_signal,
\* avg_volume, current_volume)
analyze_volume(ohlc_data, lookback) ==
    IF Len(ohlc_data) < lookback + 1
    THEN <<0, None, None>>
    ELSE LET n == Len(ohlc_data)
             volumes == [i \in 1..n |-> ohlc_data[i].v]
             avg_volume == Mean(SubSeq(volumes, n - lookback, n - 1))
             current_volume == RatOf(volumes[n])
             threshold == Rat(VOLUME_SPIKE_THRESHOLD, 1000)
         IN IF RatLT(RatMul(avg_volume, threshold), current_volume)
            THEN <<1, avg_volume, current_volume>>
            ELSE IF RatLT(current_volume, RatDiv(avg_volume, threshold))
            THEN <<-1, avg_volume, current_volume>>
            ELSE <<0, avg_volume, current_volume>>

\* _smooth_array(data, period); an entry that is nan makes every later entry
\* nan
smooth_array(data, period) ==
    IF Len(data) < period
    THEN data
    ELSE LET multiplier == Rat(2, period + 1)
             smoothed[i \in 1..Len(data)] ==
                 IF i = 1
                 THEN data[1]
                 ELSE IF data[i] = NaN \/ smoothed[i - 1] = NaN
                 THEN NaN
                 ELSE RatAdd(RatMul(data[i], multiplier),
                             RatMul(smoothed[i - 1], RatSub(RatOf(1), multiplier)))
         IN [i \in 1..Len(data) |-> smoothed[i]]

\* 100 * smoothed_dm / atr, elementwise.  numpy gives nan for 0.0 / 0.0; a
\* directional movement above 0 comes with a true range above 0 for candles
\* with low <= close <= high, so x / 0.0 with x > 0 does not occur.
DirectionalIndex(smoothed_dm, atr) ==
    [i \in 1..Len(atr) |->
        IF atr[i].num = 0 THEN NaN
        ELSE RatDiv(RatMul(RatOf(100), smoothed_dm[i]), atr[i])]

\* 100 * |plus_di - minus_di| / (plus_di + minus_di + 1e-10), elementwise.
\* The 1e-10 makes the quotient 0.0 where both are 0; where they are not it
\* lowers the quotient by less than one part in 10^8, which is left out.
DirectionalMovementIndex(plus_di, minus_di) ==
    [i \in 1..Len(plus_di) |->
        IF plus_di[i] = NaN \/ minus_di[i] = NaN THEN NaN
        ELSE IF RatAdd(plus_di[i], minus_di[i]).num = 0 THEN RatOf(0)
        ELSE RatDiv(RatMul(RatOf(100), RatAbs(RatSub(plus_di[i], minus_di[i]))),
                    RatAdd(plus_di[i], minus_di[i]))]

\* detect_market_regime(ohlc_data, adx_period), 0 < adx_period: (regime,
\* current_adx)
detect_market_regime(ohlc_data, adx_period) ==
    IF Len(ohlc_data) < adx_period * 2
    THEN <<None, None>>
    ELSE LET n == Len(ohlc_data) - 1
             true_range == [i \in 1..n |-> RatOf(TrueRanges(ohlc_data)[i])]
             up_move == [i \in 1..n |-> ohlc_data[i + 1].h - ohlc_data[i].h]
             down_move == [i \in 1..n |-> ohlc_data[i].l - ohlc_data[i + 1].l]
             plus_dm == [i \in 1..n |->
                            IF up_move[i] > down_move[i] /\ up_move[i] > 0
                            THEN RatOf(up_move[i]) ELSE RatOf(0)]
             minus_dm == [i \in 1..n |->
                             IF down_move[i] > up_move[i] /\ down_move[i] > 0
                             THEN RatOf(down_move[i]) ELSE RatOf(0)]
             atr == smooth_array(true_range, adx_period)
             plus_di == DirectionalIndex(smooth_array(plus_dm, adx_period), atr)
             minus_di == DirectionalIndex(smooth_array(minus_dm, adx_period), atr)
             dx == DirectionalMovementIndex(plus_di, minus_di)
             adx == smooth_array(dx, adx_period)
             current_adx == IF Len(adx) > 0 THEN adx[Len(adx)] ELSE RatOf(0)
             regime == IF current_adx # NaN /\ RatLT(RatOf(REGIME_TREND_THRESHOLD), current_adx)
                       THEN "trending" ELSE "ranging"
         IN <<regime, current_adx>>

call_calculate_sma(ohlc_data, period) ==
    Returned("calculate_sma", <<ohlc_data, period>>, FALSE,
             calculate_sma(ohlc_data, period))

call_calculate_atr(ohlc_data, period) ==
    Returned("calculate_atr", <<ohlc_data, period>>, FALSE,
             calculate_atr(ohlc_data, period))

call_calculate_rsi(ohlc_data, period) ==
    Returned("calculate_rsi", <<ohlc_data, period>>, FALSE,
             calculate_rsi(ohlc_data, period))

call_calculate_macd(ohlc_data, fast, slow, signal) ==
    Returned("calculate_macd", <<ohlc_data, fast, slow, signal>>, FALSE,
             calculate_macd(ohlc_data, fast, slow, signal))

call_detect_support_resistance(ohlc_data, lookback) ==
    Returned("detect_support_resistance", <<ohlc_data, lookback>>, FALSE,
             detect_support_resistance(ohlc_data, lookback))

call_analyze_volume(ohlc_data, lookback) ==
    Returned("analyze_volume", <<ohlc_data, lookback>>, FALSE,
             analyze_volume(ohlc_data, lookback))

call_detect_market_regime(ohlc_data, adx_period) ==
    Returned("detect_market_regime", <<ohlc_data, adx_period>>, FALSE,
             detect_market_regime(ohlc_data, adx_period))

\* Inputs of SpecIndicators: lists of up to MaxCandles candles that rise,
\* fall and stand still, with different volumes, and periods below, at and
\* above the lengths of the lists
Rise == [o |-> 100, h |-> 102, l |-> 99, c |-> 101, v |-> 10]
Rally == [o |-> 101, h |-> 104, l |-> 100, c |-> 103, v |-> 30]
Drop == [o |-> 103, h |-> 103, l |-> 97, c |-> 98, v |-> 10]
Still == [o |-> 100, h |-> 100, l |-> 100, c |-> 100, v |-> 4]
IndicatorCandles == {Rise, Rally, Drop, Still}
Periods == {1, 2, 5}
MacdPeriods == {<<1, 2, 1>>, <<2, 3, 2>>}

InitIndicators == Given(ListsOf(IndicatorCandles, MaxCandles))

NextIndicators ==
    /\ ret.op = "input"
    /\ LET ohlc_data == ret.args[1]
       IN \/ \E period \in Periods : call_calculate_sma(ohlc_data, period)
          \/ \E period \in Periods : call_calculate_atr(ohlc_data, period)
          \/ \E period \in Periods : call_calculate_rsi(ohlc_data, period)
          \/ \E p \in MacdPeriods : call_calculate_macd(ohlc_data, p[1], p[2], p[3])
          \/ \E lookback \in Periods : call_detect_support_resistance(ohlc_data, lookback)
          \/ \E lookback \in Periods : call_analyze_volume(ohlc_data, lookback)
          \/ \E adx_period \in Periods : call_detect_market_regime(ohlc_data, adx_period)

SpecIndicators == InitIndicators /\ [][NextIndicators]_vars

\* _cluster_levels applied to a list of levels and then to its own result
call_cluster_levels(levels, threshold) ==
    LET clustered == cluster_levels(levels, threshold)
    IN Returned("_cluster_levels", <<levels, threshold>>, FALSE,
                <<clustered, cluster_levels(clustered, threshold)>>)

\* Inputs of SpecCluster: unsorted lists, with repeats, of up to MaxLevels
\* levels that lie 0.4% (2720, 2731, 2742), a little over 0.5% (2720, 2734)
\* and far more apart; thresholds of 0.5% (the one detect_support_resistance
\* passes) and 1%
LevelPrices == {2720, 2731, 2734, 2742, 3000}
Levels == {FloatOf(p, 1) : p \in LevelPrices}
Thresholds == {FloatOf(5, 1000), FloatOf(1, 100)}

InitCluster == Given(ListsOf(Levels, MaxLevels))

NextCluster ==
    /\ ret.op = "input"
    /\ \E threshold \in Thresholds : call_cluster_levels(ret.args[1], threshold)

SpecCluster == InitCluster /\ [][NextCluster]_vars

-----------------------------------------------------------------------------
(* trade_analytics.py: TradeAnalytics.  Its lists self.trades and           *)
(* self.equity_curve are passed to the operators and returned by them.      *)

ENABLE_TRADE_LOGGING == TRUE

\* float('inf')
Infinity == [inf |-> TRUE]

\* TradeAnalytics.log_trade(trade_data): self.trades after the call; the
\* timestamp is the number of the call
log_trade(trades, trade_data) ==
    IF ~ENABLE_TRADE_LOGGING
    THEN trades
    ELSE Append(trades, ("timestamp" :> Len(trades) + 1) @@ trade_data)

RECURSIVE LoggedTrades(_, _)
\* self.trades after log_trade was called with each entry of trade_datas
LoggedTrades(trades, trade_datas) ==
    IF trade_datas = <<>>
    THEN trades
    ELSE LoggedTrades(log_trade(trades, trade_datas[1]), Tail(trade_datas))

\* [t['pnl'] for t in self.trades if keep(t)], as a list of integers
PnlsAbove(trades, floor) ==
    LET kept == SelectSeq(trades, LAMBDA t : t.pnl > floor)
    IN [i \in 1..Len(kept) |-> kept[i].pnl]

PnlsBelow(trades, ceiling) ==
    LET kept == SelectSeq(trades, LAMBDA t : t.pnl < ceiling)
    IN [i \in 1..Len(kept) |-> kept[i].pnl]

get_win_rate_NonLosing(trades) ==
    IF trades = <<>>
    THEN RatOf(0)
    ELSE Rat(Len(PnlsAbove(trades, -1)), Len(trades))

\* TradeAnalytics.get_win_rate()
get_win_rate(trades) ==
    IF trades = <<>>
    THEN RatOf(0)
    ELSE LET winning_trades == Len(PnlsAbove(trades, 0))
         IN Rat(winning_trades, Len(trades))

get_profit_factor_Signed(trades) ==
    IF trades = <<>>
    THEN RatOf(0)
    ELSE LET gross_profit == SumOf(PnlsAbove(trades, 0))
             gross_loss == SumOf(PnlsBelow(trades, 0))
         IN IF gross_loss = 0
            THEN (IF gross_profit > 0 THEN Infinity ELSE RatOf(0))
            ELSE Rat(gross_profit, gross_loss)

\* TradeAnalytics.get_profit_factor()
get_profit_factor(trades) ==
    IF trades = <<>>
    THEN RatOf(0)
    ELSE LET gross_profit == SumOf(PnlsAbove(trades, 0))
             gross_loss == Abs(SumOf(PnlsBelow(trades, 0)))
         IN IF gross_loss = 0
            THEN (IF gross_profit > 0 THEN Infinity ELSE RatOf(0))
            ELSE Rat(gross_profit, gross_loss)

\* TradeAnalytics.log_equity_point(equity, timestamp): self.equity_curve
\* after the call
log_equity_point(equity_curve, equity, timestamp) ==
    Append(equity_curve, [timestamp |-> timestamp, equity |-> equity])

RECURSIVE LoggedEquities(_, _)
\* self.equity_curve after log_equity_point was called with each entry of
\* equities
LoggedEquities(equity_curve, equities) ==
    IF equities = <<>>
    THEN equity_curve
    ELSE LoggedEquities(log_equity_point(equity_curve, equities[1], Len(equity_curve) + 1),
                        Tail(equities))

CurvePeak_Last(peak, equity) == equity

\* calculate_max_drawdown, "if equity > peak: peak = equity"
CurvePeak(peak, equity) == IF equity > peak THEN equity ELSE peak

RECURSIVE MaxDrawdownLoop(_, _, _)
\* the loop of calculate_max_drawdown; "(peak - equity) / peak" raises
\* ZeroDivisionError with a peak of 0
MaxDrawdownLoop(equities, peak, max_dd) ==
    IF equities = <<>>
    THEN [raised |-> FALSE, val |-> max_dd]
    ELSE LET equity == equities[1]
             new_peak == CurvePeak(peak, equity)
         IN IF new_peak = 0
            THEN [raised |-> TRUE, val |-> max_dd]
            ELSE LET dd == Frac(new_peak - equity, new_peak)
                 IN MaxDrawdownLoop(Tail(equities), new_peak,
                                    IF FracGT(dd, max_dd) THEN dd ELSE max_dd)

\* TradeAnalytics.calculate_max_drawdown()
calculate_max_drawdown(equity_curve) ==
    IF Len(equity_curve) < 2
    THEN [raised |-> FALSE, val |-> FracZero]
    ELSE LET equities == [i \in 1..Len(equity_curve) |-> equity_curve[i].equity]
         IN MaxDrawdownLoop(equities, equities[1], FracZero)

\* a TradeAnalytics to which the trades are logged one by one and which is
\* then asked for a metric
call_get_win_rate(trade_datas) ==
    LET trades == LoggedTrades(<<>>, trade_datas)
    IN Returned("get_win_rate", <<trade_datas>>, FALSE, <<trades, get_win_rate(trades)>>)

call_get_profit_factor(trade_datas) ==
    LET trades == LoggedTrades(<<>>, trade_datas)
    IN Returned("get_profit_factor", <<trade_datas>>, FALSE,
                <<trades, get_profit_factor(trades)>>)

\* Inputs of SpecAnalytics: up to MaxTrades trade records with losses, wins
\* and a P&L of 0 (the trade records of the tests carry more fields, which
\* the metrics do not read)
TradePnls == {-100, -50, 0, 100, 200}
TradeDatas == {[pnl |-> p, exit_reason |-> "stop_loss"] : p \in TradePnls}

InitAnalytics == Given(ListsOf(TradeDatas, MaxTrades))

NextAnalytics ==
    /\ ret.op = "input"
    /\ \/ call_get_win_rate(ret.args[1])
       \/ call_get_profit_factor(ret.args[1])

SpecAnalytics == InitAnalytics /\ [][NextAnalytics]_vars

\* Inputs of SpecCurve: a RiskManager created with the first value of an
\* equity series of up to MaxCurve points, each point passed to update_equity
\* and logged
CurveEquities == {0, 9000, 10000, 11000}

InitCurve == \E e \in CurveEquities : Constructed(e)

NextCurve ==
    /\ Len(equity_log) < MaxCurve
    /\ \E e \in CurveEquities :
           /\ equity_log = <<>> => e = initial_equity
           /\ update_equity(e)
           /\ equity_log' = Append(equity_log, [equity |-> e, returned |-> ret'.val])

SpecCurve == InitCurve /\ [][NextCurve]_vars

-----------------------------------------------------------------------------
(* strategy.py: the RSI score of evaluate_data_points_verbose, in tenths *)

rsi_decision_Inclusive(rsi) ==
    IF rsi = None THEN 0
    ELSE IF RatLE(rsi, RatOf(30)) THEN 10
    ELSE IF RatLE(RatOf(70), rsi) THEN -10
    ELSE IF RatLT(rsi, RatOf(45)) THEN 5
    ELSE IF RatLT(RatOf(55), rsi) THEN -5
    ELSE 0

\* "RSI (Momentum): Overbought/Oversold": data_points['RSI'] for
\* indicators['RSI'] = rsi
rsi_decision(rsi) ==
    IF rsi = None THEN 0
    ELSE IF RatLT(rsi, RatOf(30)) THEN 10
    ELSE IF RatLT(RatOf(70), rsi) THEN -10
    ELSE IF RatLT(rsi, RatOf(45)) THEN 5
    ELSE IF RatLT(RatOf(55), rsi) THEN -5
    ELSE 0

call_rsi_decision(rsi) == Returned("rsi_decision", <<rsi>>, FALSE, <<rsi_decision(rsi)>>)

\* Inputs of SpecScore: no RSI, and every RSI from 0 to 100 in steps of 1/2
RsiValues == {None} \cup {Rat(n, 2) : n \in 0..200}

InitScore == Given(RsiValues)

NextScore ==
    /\ ret.op = "input"
    /\ call_rsi_decision(ret.args[1])

SpecScore == InitScore /\ [][NextScore]_vars

-----------------------------------------------------------------------------
(* kraken_api.py: place_order.  A volume is a rational in thousandths of an  *)
(* asset unit, or None.  What the exchange does with a request is an input: *)
(* one response for each attempt the loop can make.                         *)

MAX_ORDER_RETRIES == 3

\* what kraken_request gives back in an attempt: a result without an error,
\* an error that names neither 'Insufficient' nor 'Invalid', one that names
\* 'Insufficient', one that names 'Invalid', None (the request failed), or a
\* result without an error that lacks ['result']['descr']['order'], on which
\* the print of the success raises KeyError inside the try
OrderResponses == {"ok", "unavailable", "insufficient", "invalid", "none", "raised"}

\* res['result'] of a response without an error
OrderResult == [descr |-> "order"]

RECURSIVE OrderAttempts(_, _, _)
\* place_order, "for attempt in range(attempts)": what is returned and the
\* number of kraken_request calls made
OrderAttempts(attempt, attempts, responses) ==
    IF attempt >= attempts
    THEN [result |-> None, requests |-> attempt]
    ELSE IF responses[attempt + 1] = "ok"
    THEN [result |-> OrderResult, requests |-> attempt + 1]
    ELSE IF responses[attempt + 1] \in {"insufficient", "invalid"}
    THEN [result |-> None, requests |-> attempt + 1]
    ELSE OrderAttempts(attempt + 1, attempts, responses)

place_order_NoMinimum(volume, retry, responses) ==
    LET done == OrderAttempts(0, IF retry THEN MAX_ORDER_RETRIES ELSE 1, responses)
    IN [raised |-> FALSE, result |-> done.result, requests |-> done.requests]

\* kraken_api.place_order(pair, order_type, volume, retry).  For a volume of
\* None the f-string of the failure message, "{volume:.4f}", raises
\* TypeError.  config.py does not load without API_KEY and API_SECRET, so
\* the credentials test never returns.
place_order(volume, retry, responses) ==
    IF volume = None
    THEN [raised |-> TRUE, result |-> None, requests |-> 0]
    ELSE IF RatLT(volume, RatOf(MIN_ASSET_VOLUME))
    THEN [raised |-> FALSE, result |-> None, requests |-> 0]
    ELSE LET done == OrderAttempts(0, IF retry THEN MAX_ORDER_RETRIES ELSE 1, responses)
         IN [raised |-> FALSE, result |-> done.result, requests |-> done.requests]

call_place_order(volume, retry, responses) ==
    LET r == place_order(volume, retry, responses)
    IN Returned("place_order", <<volume, retry, responses>>, r.raised,
                <<r.result, r.requests>>)

\* Inputs of SpecOrder: volumes below, on and above MIN_ASSET_VOLUME (main()
\* passes a number in each of its calls, never None), and every course of
\* MAX_ORDER_RETRIES responses
OrderVolumes == {RatOf(0), Rat(1, 2), RatOf(MIN_ASSET_VOLUME), RatOf(1000)}

InitOrder == Given([1..MAX_ORDER_RETRIES -> OrderResponses])

NextOrder ==
    /\ ret.op = "input"
    /\ \E volume \in OrderVolumes, retry \in BOOLEAN :
           call_place_order(volume, retry, ret.args[1])

SpecOrder == InitOrder /\ [][NextOrder]_vars

-----------------------------------------------------------------------------
(* Properties *)

Max2(a, b) == IF a >= b THEN a ELSE b

\* the positions present before and after a step, by index
Kept == 1..(IF Len(active_positions) <= Len(active_positions')
            THEN Len(active_positions) ELSE Len(active_positions'))

\* C1: once circuit_breaker_active is true, every call other than
\* reset_circuit_breaker (update_equity with any equity, add_position,
\* update_position, remove_position, can_open_position) leaves it true.
C1_BreakerLatched ==
    [][(circuit_breaker_active /\ ~circuit_breaker_active')
           => ret'.op = "reset_circuit_breaker"]_vars

\* C1 witness: the breaker is active after an update_equity call that
\* returned a drawdown of 0 with the equity above the initial peak.
C1_Witness ==
    /\ circuit_breaker_active
    /\ ret.op = "update_equity"
    /\ ret.val.num = 0
    /\ current_equity > initial_equity

\* C2: an update_equity call returns (peak - new_equity) / peak and leaves the
\* breaker on exactly when it was on before or that drawdown is at least
\* MAX_DRAWDOWN_PERCENT, the boundary of exactly 5% included.
C2_BreakerTripsAtThreshold ==
    [][(ret'.op = "update_equity" /\ ~ret'.raised)
           => /\ ret'.val = Frac(peak_equity' - current_equity', peak_equity')
              /\ circuit_breaker_active' =
                     (circuit_breaker_active
                        \/ (peak_equity' - current_equity') * 1000
                               >= MAX_DRAWDOWN_PERCENT * peak_equity')]_vars

\* C2 witness: the breaker is on after a call whose drawdown is exactly 5%,
\* no larger drawdown having been seen.
C2_Witness ==
    /\ circuit_breaker_active
    /\ ret.op = "update_equity"
    /\ ~ret.raised
    /\ ret.val.num * 1000 = MAX_DRAWDOWN_PERCENT * ret.val.den
    /\ FracEq(max_drawdown, ret.val)

\* C3: can_open_position returns false when the breaker is active or the
\* number of active positions is at least MAX_CONCURRENT_TRADES, true
\* otherwise, and changes no state.
C3_CanOpenPosition ==
    [][ret'.op = "can_open_position"
           => /\ ret'.val[1] = ~(circuit_breaker_active
                                   \/ Len(active_positions) >= MAX_CONCURRENT_TRADES)
              /\ UNCHANGED <<initial_equity, equityVars, active_positions,
                             trade_history, now>>]_vars

\* C3 witness: can_open_position has returned false at the ceiling with the
\* breaker off.
C3_Witness ==
    /\ ret.op = "can_open_position"
    /\ ret.val[1] = FALSE
    /\ ~circuit_breaker_active
    /\ Len(active_positions) = MAX_CONCURRENT_TRADES

\* C4: the number of active positions never exceeds MAX_CONCURRENT_TRADES and
\* a position is added only with the breaker off and the count below the
\* ceiling.
C4_AddsRespectLimits ==
    [][/\ Len(active_positions') <= MAX_CONCURRENT_TRADES
       /\ Len(active_positions') > Len(active_positions)
              => (~circuit_breaker_active
                    /\ Len(active_positions) < MAX_CONCURRENT_TRADES)]_vars

\* C5: reset_circuit_breaker clears the breaker, sets peak_equity to
\* current_equity and changes nothing else; a can_open_position that follows
\* it is decided by the position count alone, and an update_equity that
\* follows it measures the drawdown from the reset peak.
C5_Reset ==
    [][/\ ret'.op = "reset_circuit_breaker"
              => /\ ~circuit_breaker_active'
                 /\ peak_equity' = current_equity
                 /\ UNCHANGED <<initial_equity, current_equity, max_drawdown,
                                active_positions, trade_history, now>>
       /\ (ret.op = "reset_circuit_breaker" /\ ret'.op = "can_open_position")
              => ret'.val[1] = (Len(active_positions) < MAX_CONCURRENT_TRADES)
       /\ (ret.op = "reset_circuit_breaker" /\ ret'.op = "update_equity"
             /\ ~ret'.raised)
              => ret'.val = Frac(Max2(current_equity, current_equity') - current_equity',
                                 Max2(current_equity, current_equity'))]_vars

\* C5 witness: a reset has lowered the peak after a drawdown that tripped
\* the breaker, with a position active and a trade recorded.
C5_Witness ==
    /\ ret.op = "reset_circuit_breaker"
    /\ peak_equity < initial_equity
    /\ FracGEThousandths(max_drawdown, MAX_DRAWDOWN_PERCENT)
    /\ Len(active_positions) > 0
    /\ Len(trade_history) > 0

RECURSIVE MaxSupplied(_, _)
\* the largest of m and the equities logged
MaxSupplied(m, log) ==
    IF log = <<>> THEN m
    ELSE MaxSupplied(Max2(m, log[1].equity), Tail(log))

\* C6: with no reset, after every update_equity call the peak is the maximum
\* of the initial equity and the equities supplied so far (so it never
\* decreases), the call returned (peak - new_equity) / peak, and the path
\* 10000, 11000, 10500 from 10000 returns 0, 0, 500/11000 and ends at the
\* peak 11000.
C6_PeakAndDrawdown ==
    /\ peak_equity = MaxSupplied(initial_equity, equity_log)
    /\ \A n \in 1..Len(equity_log) :
           LET peak == MaxSupplied(initial_equity, SubSeq(equity_log, 1, n)) IN
           /\ equity_log[n].returned.num * peak
                  = (peak - equity_log[n].equity) * equity_log[n].returned.den
           /\ equity_log[n].returned.den > 0
    /\ (initial_equity = 10000
          /\ Len(equity_log) = 3
          /\ equity_log[1].equity = 10000
          /\ equity_log[2].equity = 11000
          /\ equity_log[3].equity = 10500)
           => /\ equity_log[1].returned.num = 0
              /\ equity_log[2].returned.num = 0
              /\ equity_log[3].returned = Frac(500, 11000)
              /\ peak_equity = 11000

\* C6 witness: the path 10000, 11000, 10500 has been supplied.
C6_Witness ==
    /\ Len(equity_log) = 3
    /\ equity_log[1].equity = 10000
    /\ equity_log[2].equity = 11000
    /\ equity_log[3].equity = 10500
    /\ ret.val = Frac(500, 11000)

\* C7: under update_position a position's volume never increases, stays
\* within 0..initial_volume, and its initial_volume never changes.
C7_VolumeShrinks ==
    [][\A i \in Kept :
           /\ active_positions'[i].volume <= active_positions[i].volume
           /\ active_positions'[i].volume >= 0
           /\ active_positions'[i].volume <= active_positions'[i].initial_volume
           /\ active_positions'[i].initial_volume = active_positions[i].initial_volume]_vars

\* C7 witness: all three tiers have fired and 28% of the initial volume is left.
C7_Witness ==
    \E i \in 1..Len(active_positions) :
        /\ Len(active_positions[i].profit_targets_hit) = 3
        /\ active_positions[i].volume * 1000 = active_positions[i].initial_volume * 280
        /\ active_positions[i].volume > 0

\* C8 as claimed: for any initial stop_loss, no update_position call lowers a
\* position's stop_loss.
C8_StopNeverLowered ==
    [][\A i \in Kept :
           active_positions'[i].stop_loss >= active_positions[i].stop_loss]_vars

\* C8 as amended: no update_position call lowers the stop_loss of a position
\* whose stop_loss is at most its entry price or whose breakeven move has
\* been made; a position created with a stop_loss at most its entry price
\* is such a position all its life.
C8_StopNeverLoweredFromBelowEntry ==
    [][\A i \in Kept :
           /\ (active_positions[i].stop_loss <= active_positions[i].entry_price
                 \/ active_positions[i].breakeven_stop_set)
                  => active_positions'[i].stop_loss >= active_positions[i].stop_loss
           /\ (active_positions[i].stop_loss <= active_positions[i].entry_price
                 /\ ~active_positions[i].breakeven_stop_set)
                  => (active_positions'[i].stop_loss <= active_positions'[i].entry_price
                        /\ (~active_positions'[i].breakeven_stop_set
                              => active_positions'[i].stop_loss
                                     = active_positions[i].stop_loss))]_vars

\* C8 witness: the trailing rule has raised the stop of a position above its
\* entry price.
C8_Witness ==
    \E i \in 1..Len(active_positions) :
        /\ active_positions[i].trailing_stop_active
        /\ active_positions[i].stop_loss > active_positions[i].entry_price
        /\ ret.op = "update_position"
        /\ ret.val[3] = "trailing"

\* the position with entry_time t in a list of positions, as a set
WithEntryTime(positions, t) ==
    {positions[i] : i \in {j \in 1..Len(positions) : positions[j].entry_time = t}}

\* C9: when the sell order of a partial exit is not confirmed, the
\* position's volume, tier hit-set and trailing flag after the pass are
\* those from before the pass.
C9_UnconfirmedPartialExitChangesNothing ==
    [][\A k \in 1..Len(cycle'.evaluated) :
           LET e == cycle'.evaluated[k] IN
           (e.action = "partial_exit" /\ ~e.confirmed)
               => \A p \in WithEntryTime(active_positions, e.entry_time),
                     q \in WithEntryTime(active_positions', e.entry_time) :
                      /\ q.volume = p.volume
                      /\ q.profit_targets_hit = p.profit_targets_hit
                      /\ q.trailing_stop_active = p.trailing_stop_active]_vars

\* C10: a position evaluated at a price at or below its stop_loss gets
\* ('full_exit', its whole volume, 'stop_loss') and no breakeven, tier or
\* trailing change; when the sell is confirmed it leaves the active list in
\* that pass, with a trade record of reason 'stop_loss'; and no pass
\* evaluates a position that is already in the trade history.
C10_StopLossFirst ==
    [][\A k \in 1..Len(cycle'.evaluated) :
           LET e == cycle'.evaluated[k] IN
           /\ \A r \in 1..Len(trade_history) :
                  trade_history[r].entry_time # e.entry_time
           /\ WithEntryTime(active_positions, e.entry_time) # {}
           /\ \A p \in WithEntryTime(active_positions, e.entry_time) :
                  cycle'.price <= p.stop_loss
                      => /\ e.action = "full_exit"
                         /\ e.volume = p.volume
                         /\ e.reason = "stop_loss"
                         /\ IF e.confirmed
                            THEN /\ WithEntryTime(active_positions', e.entry_time) = {}
                                 /\ \E r \in 1..Len(trade_history') :
                                        /\ trade_history'[r].entry_time = e.entry_time
                                        /\ trade_history'[r].exit_reason = "stop_loss"
                            ELSE \A q \in WithEntryTime(active_positions', e.entry_time) :
                                     /\ q.volume = p.volume
                                     /\ q.stop_loss = p.stop_loss
                                     /\ q.breakeven_stop_set = p.breakeven_stop_set
                                     /\ q.profit_targets_hit = p.profit_targets_hit
                                     /\ q.trailing_stop_active = p.trailing_stop_active]_vars

\* C10 witness: a confirmed stop-loss exit at a price 4% above the entry,
\* the second profit target met and not yet taken.
C10_Witness ==
    /\ Len(cycle.evaluated) > 0
    /\ cycle.evaluated[1].reason = "stop_loss"
    /\ cycle.evaluated[1].confirmed
    /\ \E r \in 1..Len(trade_history) :
           /\ trade_history[r].entry_time = cycle.evaluated[1].entry_time
           /\ trade_history[r].exit_reason = "stop_loss"
           /\ (trade_history[r].exit_price - trade_history[r].entry_price) * 1000
                  >= PROFIT_TARGET_2 * trade_history[r].entry_price
           /\ \A h \in 1..Len(trade_history[r].profit_targets_hit) :
                  trade_history[r].profit_targets_hit[h] # "2"

\* an update_position call on the i-th active position has just been made
Called(i) == ret'.op = "update_position" /\ ret'.args[1] = i - 1

\* profit_pct of a position at a price is at least t thousandths
Met(position, price, t) ==
    (price - position.entry_price) * 1000 >= t * position.entry_price

\* the tier hit-set of a position
Tiers(position) ==
    {position.profit_targets_hit[k] : k \in 1..Len(position.profit_targets_hit)}

\* C11: with price > stop_loss, the breakeven flag unset and profit_pct >=
\* BREAKEVEN_STOP_TRIGGER, update_position sets stop_loss to entry_price,
\* sets the flag and returns ('update_stop', 0, 'breakeven'), leaving volume,
\* hit-set and trailing flag as they were (no tier fires); the breakeven
\* move is made only with the flag unset and the flag is never cleared.
C11_Breakeven ==
    [][\A i \in 1..Len(active_positions) :
           Called(i) =>
               LET p == active_positions[i]
                   q == active_positions'[i]
                   price == ret'.args[2]
               IN /\ (price > p.stop_loss /\ ~p.breakeven_stop_set
                        /\ Met(p, price, BREAKEVEN_STOP_TRIGGER))
                      => /\ ret'.val = <<"update_stop", 0, "breakeven">>
                         /\ q.stop_loss = p.entry_price
                         /\ q.breakeven_stop_set
                         /\ q.volume = p.volume
                         /\ q.profit_targets_hit = p.profit_targets_hit
                         /\ q.trailing_stop_active = p.trailing_stop_active
                  /\ ret'.val[3] = "breakeven" => ~p.breakeven_stop_set
                  /\ p.breakeven_stop_set => q.breakeven_stop_set]_vars

\* C11 witness: a breakeven move made at a price that also meets the third
\* profit target; no tier is in the hit-set and the volume is whole.
C11_Witness ==
    /\ ret.op = "update_position"
    /\ ret.val = <<"update_stop", 0, "breakeven">>
    /\ \E i \in 1..Len(active_positions) :
           /\ ret.args[1] = i - 1
           /\ Met(active_positions[i], ret.args[2], PROFIT_TARGET_3)
           /\ active_positions[i].profit_targets_hit = <<>>
           /\ active_positions[i].volume = active_positions[i].initial_volume
           /\ active_positions[i].stop_loss = active_positions[i].entry_price

\* target and size of a tier
TargetOf(tier) ==
    IF tier = "1" THEN PROFIT_TARGET_1
    ELSE IF tier = "2" THEN PROFIT_TARGET_2 ELSE PROFIT_TARGET_3

SizeOf(tier) ==
    IF tier = "1" THEN PROFIT_TARGET_1_SIZE
    ELSE IF tier = "2" THEN PROFIT_TARGET_2_SIZE ELSE PROFIT_TARGET_3_SIZE

\* C12: an update_position call appends at most one tier to the hit-set; the
\* tier it appends had its target met and was not in the hit-set, no higher
\* tier was met and unhit, the call returns ('partial_exit', fraction of the
\* current volume, 'target_n') and takes that volume off; it returns
\* 'partial_exit' in no other case; and no tier is ever twice in the hit-set.
C12_OneTierPerCall ==
    [][\A i \in 1..Len(active_positions) :
           Called(i) =>
               LET p == active_positions[i]
                   q == active_positions'[i]
                   price == ret'.args[2]
                   exit_volume == (p.volume * SizeOf(q.profit_targets_hit[Len(q.profit_targets_hit)])) \div 1000
               IN /\ \/ /\ q.profit_targets_hit = p.profit_targets_hit
                        /\ ret'.val[1] # "partial_exit"
                     \/ \E t \in {"1", "2", "3"} :
                            /\ q.profit_targets_hit = Append(p.profit_targets_hit, t)
                            /\ t \notin Tiers(p)
                            /\ Met(p, price, TargetOf(t))
                            /\ \A u \in {"1", "2", "3"} :
                                   (TargetOf(u) > TargetOf(t) /\ Met(p, price, TargetOf(u)))
                                       => u \in Tiers(p)
                            /\ ret'.val[1] = "partial_exit"
                            /\ ret'.val[2] = exit_volume
                            /\ ret'.val[3] = (IF t = "1" THEN "target_1"
                                              ELSE IF t = "2" THEN "target_2" ELSE "target_3")
                            /\ q.volume = p.volume - exit_volume
                            /\ q.initial_volume = p.initial_volume
                  /\ Cardinality(Tiers(q)) = Len(q.profit_targets_hit)]_vars

\* C12 witness: tier 3 fired first, tier 2 next and tier 1 last, each in a
\* call of its own, the last one just now.
C12_Witness ==
    /\ ret.op = "update_position"
    /\ ret.val[3] = "target_1"
    /\ \E i \in 1..Len(active_positions) :
           /\ active_positions[i].profit_targets_hit = <<"3", "2", "1">>
           /\ active_positions[i].volume = 280
           /\ active_positions[i].initial_volume = 1000

ScenarioB_Added == NewPosition(50000, 100, 49800, 1)

ScenarioB_AfterFirst == [ScenarioB_Added EXCEPT !.highest_price = 50100]

ScenarioB_AfterSecond ==
    [ScenarioB_AfterFirst EXCEPT !.highest_price = 50900, !.stop_loss = 50000,
                                 !.breakeven_stop_set = TRUE]

ScenarioB_AfterThird ==
    [ScenarioB_AfterSecond EXCEPT !.highest_price = 51200, !.volume = 50,
                                  !.profit_targets_hit = <<"1">>,
                                  !.trailing_stop_active = TRUE]

\* C14: for the position added with entry 50000, volume 0.1 and stop 49800,
\* update_position at 50100 returns hold; then at 50900 it returns
\* update_stop/breakeven; then at 51200 it returns partial_exit of 0.05 for
\* target_1 and leaves volume 0.05, stop_loss 50000, hit-set {"1"}, the
\* breakeven flag set and trailing active.
C14_ScenarioB ==
    [][Called(1) =>
          /\ (active_positions = <<ScenarioB_Added>> /\ ret'.args[2] = 50100)
                 => /\ ret'.val = <<"hold", 0, "None">>
                    /\ active_positions' = <<ScenarioB_AfterFirst>>
          /\ (active_positions = <<ScenarioB_AfterFirst>> /\ ret'.args[2] = 50900)
                 => /\ ret'.val = <<"update_stop", 0, "breakeven">>
                    /\ active_positions' = <<ScenarioB_AfterSecond>>
          /\ (active_positions = <<ScenarioB_AfterSecond>> /\ ret'.args[2] = 51200)
                 => /\ ret'.val = <<"partial_exit", 50, "target_1">>
                    /\ active_positions' = <<ScenarioB_AfterThird>>]_vars

\* C14 witness: the third call of the scenario has just returned.
C14_Witness ==
    /\ ret.op = "update_position"
    /\ ret.args = <<0, 51200>>
    /\ ret.val = <<"partial_exit", 50, "target_1">>
    /\ active_positions = <<ScenarioB_AfterThird>>

\* C15: for positive price and ATR, RiskManager.calculate_position_size
\* returns size = min(current_equity * MAX_RISK_PERCENT / (ATR *
\* ATR_STOP_MULTIPLIER) * volatility_factor, 0.95 * current_equity / price)
\* and stop_loss = price - ATR * ATR_STOP_MULTIPLIER, so size * price is at
\* most 95% of current equity and the stop is below the price; the call
\* changes no state.
C15_PositionSize ==
    [][ret'.op = "RiskManager.calculate_position_size"
           => LET price == ret'.args[1]
                  atr == ret'.args[2]
                  factor == ret'.args[3]
                  size == ret'.val[1]
                  stop == ret'.val[2]
                  by_risk == (current_equity * MAX_RISK_PERCENT * factor)
                                 \div (atr * ATR_STOP_MULTIPLIER)
                  by_funds == (950 * current_equity) \div price
              IN /\ (price > 0 /\ atr > 0)
                     => /\ size = (IF by_risk <= by_funds THEN by_risk ELSE by_funds)
                        /\ stop * 1000 = price * 1000 - atr * ATR_STOP_MULTIPLIER
                        /\ size * price <= 950 * current_equity
                        /\ stop < price
                 /\ UNCHANGED <<initial_equity, equityVars, active_positions,
                                trade_history, now, loopVars>>]_vars

\* C15 witness: a call in which the 95% cap is the smaller of the two sizes
\* and the cost is exactly 95% of a positive equity.
C15_Witness ==
    /\ ret.op = "RiskManager.calculate_position_size"
    /\ current_equity > 0
    /\ ret.val[1] * ret.args[1] = 950 * current_equity
    /\ ret.val[1] * ret.args[2] * ATR_STOP_MULTIPLIER
           < current_equity * MAX_RISK_PERCENT * ret.args[3]

\* C16: strategy.calculate_position_size(10000, 50000, 100, 0.05, 2.0)
\* returns size 0.19 and stop_loss 49800.
C16_ScenarioC ==
    [][(ret'.op = "strategy.calculate_position_size"
          /\ ret'.args = <<10000, 50000, 100, 50, 2000>>)
           => ret'.val = <<190, 49800>>]_vars

\* C17: both sizing functions return size 0 and stop 0 when the ATR or the
\* price is not positive, whatever the equity, and change no state; a pass
\* of main() with such an ATR or price adds no position and places no buy
\* order.
C17_InvalidParameters ==
    [][/\ (ret'.op = "RiskManager.calculate_position_size"
             /\ (ret'.args[1] <= 0 \/ ret'.args[2] <= 0))
           => /\ ret'.val = <<0, 0>>
              /\ UNCHANGED <<initial_equity, equityVars, active_positions,
                             trade_history, now, loopVars>>
       /\ (ret'.op = "strategy.calculate_position_size"
             /\ (ret'.args[2] <= 0 \/ ret'.args[3] <= 0))
           => /\ ret'.val = <<0, 0>>
              /\ UNCHANGED <<initial_equity, equityVars, active_positions,
                             trade_history, now, loopVars>>
       /\ (ret'.op = "main" /\ cycle'.outcome \in {"done", "raised"}
             /\ (cycle'.price <= 0 \/ cycle'.atr <= 0))
           => /\ ~cycle'.added
              /\ cycle'.sized \in {<<>>, <<0, 0>>}
              /\ \A k \in 1..Len(cycle'.orders) : cycle'.orders[k].side # "buy"
              /\ Len(active_positions') <= Len(active_positions)
              /\ now' = now]_vars

\* C17 witness: a pass with a buy signal, the trend aligned, a positive ATR
\* and a negative price, in which calculate_position_size was called and
\* returned (0, 0); no order was placed.
C17_Witness ==
    /\ ret.op = "main"
    /\ cycle.outcome = "done"
    /\ cycle.can_trade
    /\ cycle.price < 0
    /\ cycle.atr > 0
    /\ cycle.sized = <<0, 0>>
    /\ cycle.orders = <<>>
    /\ active_positions = <<>>

\* C18: a pass in which the primary or trend candles, the ticker, the order
\* book or the balance is missing evaluates no position, places no order,
\* adds and removes nothing, leaves the RiskManager's state, the trade
\* history and candles_in_position unchanged, and ends without an exception.
C18_SkippedCycle ==
    [][(ret'.op = "main" /\ cycle'.outcome \in LoopFetches)
           => /\ UNCHANGED <<initial_equity, equityVars, active_positions,
                             trade_history, now, candles_in_position>>
              /\ cycle'.evaluated = <<>>
              /\ cycle'.orders = <<>>
              /\ ~cycle'.added
              /\ ~ret'.raised]_vars

\* C18 witness: a pass skipped for a missing balance while a position is
\* open and has been for some passes.
C18_Witness ==
    /\ ret.op = "main"
    /\ cycle.outcome = "no_balance"
    /\ Len(active_positions) = 1
    /\ candles_in_position > 0
    /\ active_positions[1].breakeven_stop_set

\* C19: remove_position on a valid index takes exactly that position out of
\* the active list, the others keeping their order and contents, and appends
\* one record to trade_history whose pnl is (exit_price - entry_price) *
\* initial_volume and whose exit reason and tier list are the given reason
\* and the removed position's list.
C19_RemovePosition ==
    [][(ret'.op = "remove_position" /\ ret'.args[1] < Len(active_positions))
           => LET i == ret'.args[1] + 1
                  p == active_positions[i]
                  rec == trade_history'[Len(trade_history')]
              IN /\ Len(active_positions') = Len(active_positions) - 1
                 /\ \A j \in 1..Len(active_positions') :
                        active_positions'[j] =
                            active_positions[IF j < i THEN j ELSE j + 1]
                 /\ Len(trade_history') = Len(trade_history) + 1
                 /\ \A j \in 1..Len(trade_history) : trade_history'[j] = trade_history[j]
                 /\ rec.pnl = (ret'.args[2] - p.entry_price) * p.initial_volume
                 /\ rec.volume = p.initial_volume
                 /\ rec.entry_price = p.entry_price
                 /\ rec.exit_price = ret'.args[2]
                 /\ rec.exit_reason = ret'.args[3]
                 /\ rec.profit_targets_hit = p.profit_targets_hit
                 /\ rec.entry_time = p.entry_time]_vars

\* C19 witness: the first of two positions has just been removed after a
\* partial exit, at a price above its entry; the other is still active.
C19_Witness ==
    /\ ret.op = "remove_position"
    /\ ret.args[1] = 0
    /\ Len(active_positions) = 1
    /\ Len(trade_history) > 0
    /\ LET rec == trade_history[Len(trade_history)]
       IN /\ rec.entry_time = ret.val[1]
          /\ rec.entry_time < active_positions[1].entry_time
          /\ rec.profit_targets_hit # <<>>
          /\ rec.pnl > 0

\* the positions of the active list after a step that were not in it before
Added ==
    {j \in 1..Len(active_positions') :
        \A i \in 1..Len(active_positions) :
            active_positions[i].entry_time # active_positions'[j].entry_time}

\* C20: a pass of main() adds at most one position, and adds one only when
\* can_open_position returned true (breaker off, fewer than
\* MAX_CONCURRENT_TRADES positions), the sum of the scores other than
\* HR_TREND, HL and REGIME is above 2, the trend is aligned, the ATR is
\* positive, and a buy order of at least MIN_ASSET_VOLUME was confirmed.
C20_EntryConditions ==
    [][ret'.op = "main"
           => /\ Cardinality(Added) <= 1
              /\ (Added # {}) = (cycle'.outcome = "done" /\ cycle'.added)
              /\ Added # {}
                  => LET dp == cycle'.data_points
                         order == cycle'.orders[Len(cycle'.orders)]
                         q == active_positions'[Len(active_positions')]
                     IN /\ cycle'.can_trade
                        /\ ~circuit_breaker_active'
                        /\ Len(active_positions') <= MAX_CONCURRENT_TRADES
                        /\ dp.RSI + dp.MACD + dp.SR > 20
                        /\ cycle'.trend_aligned
                        /\ cycle'.atr > 0
                        /\ order.side = "buy"
                        /\ order.confirmed
                        /\ order.volume >= MIN_ASSET_VOLUME
                        /\ Added = {Len(active_positions')}
                        /\ q.volume = order.volume
                        /\ q.entry_price = cycle'.price]_vars

\* C20 witness: a pass has just added a position at its price, with the
\* volume of the buy order it placed, and reset candles_in_position.
C20_Witness ==
    /\ ret.op = "main"
    /\ cycle.added
    /\ Len(active_positions) = 1
    /\ active_positions[1].entry_price = cycle.price
    /\ active_positions[1].volume = cycle.orders[Len(cycle.orders)].volume
    /\ candles_in_position = 0

RECURSIVE CloseSum(_, _)
\* the sum of the last k closes of a candle list
CloseSum(data, k) ==
    IF k = 0 THEN 0 ELSE data[Len(data)].c + CloseSum(SubSeq(data, 1, Len(data) - 1), k - 1)

\* C21: validate_trend_alignment returns true exactly when the trend list has
\* at least 2 candles and either the direction is positive, the latest trend
\* candle is not a bearish candle with a body over 50% of its range and its
\* close is at or above the trend SMA, or the direction is negative and the
\* mirror condition holds; direction 0 and lists under 2 candles give false.
C21_TrendAlignment ==
    [][ret'.op = "validate_trend_alignment"
           => LET d == ret'.args[1]
                  data == ret'.args[2]
                  last == data[Len(data)]
                  n == IF Len(data) < SMA_PERIOD THEN Len(data) ELSE SMA_PERIOD
                  over_half == 2 * Abs(last.c - last.o) > last.h - last.l
                  aligned ==
                      \/ /\ d > 0
                         /\ ~(last.c < last.o /\ over_half)
                         /\ last.c * n >= CloseSum(data, n)
                      \/ /\ d < 0
                         /\ ~(last.c > last.o /\ over_half)
                         /\ last.c * n <= CloseSum(data, n)
              IN /\ ~ret'.raised
                 /\ ret'.val[1] = (Len(data) >= 2 /\ aligned)
                 /\ (d = 0 \/ Len(data) < 2) => ret'.val[1] = FALSE]_vars

\* C21 witness: a bullish direction validated on a latest trend candle that
\* is bearish with a body under 50% and closes exactly on the SMA.
C21_Witness ==
    /\ ret.op = "validate_trend_alignment"
    /\ ret.args[1] = 1
    /\ ret.val[1] = TRUE
    /\ LET data == ret.args[2]
       IN /\ Len(data) = 3
          /\ data[3].c < data[3].o
          /\ data[3].c * 3 = data[1].c + data[2].c + data[3].c

\* the minimum window of the indicator called last
MinWindow ==
    CASE ret.op \in {"calculate_sma", "detect_support_resistance"} -> ret.args[2]
      [] ret.op \in {"calculate_atr", "calculate_rsi", "analyze_volume"} -> ret.args[2] + 1
      [] ret.op = "calculate_macd" -> ret.args[3] + ret.args[4]
      [] ret.op = "detect_market_regime" -> 2 * ret.args[2]
      [] OTHER -> 0

\* the result the indicator called last gives without enough candles
Undefined ==
    CASE ret.op \in {"calculate_sma", "calculate_atr", "calculate_rsi"} -> None
      [] ret.op = "calculate_macd" -> <<None, None, None>>
      [] ret.op = "analyze_volume" -> <<0, None, None>>
      [] ret.op = "detect_market_regime" -> <<None, None>>
      [] ret.op = "detect_support_resistance" -> <<(<<>>), (<<>>)>>
      [] OTHER -> None

IndicatorOps ==
    {"calculate_sma", "calculate_atr", "calculate_rsi", "calculate_macd",
     "analyze_volume", "detect_market_regime", "detect_support_resistance"}

C23_RsiRange ==
    (ret.op = "calculate_rsi" /\ Len(ret.args[1]) >= ret.args[2] + 1)
        => LET data == ret.args[1]
               n == Len(data)
               falls == {i \in (n - ret.args[2] + 1)..n : data[i].c < data[i - 1].c}
           IN /\ ~ret.raised
              /\ ret.val # None
              /\ 0 <= ret.val.num /\ ret.val.num <= 100 * ret.val.den
              /\ falls = {} => (ret.val.num = 100 /\ ret.val.den = 1)

\* C23 witness: an RSI of 100 over a window without a fall that follows an
\* earlier fall.
C23_Witness ==
    /\ ret.op = "calculate_rsi"
    /\ ret.args[2] = 2
    /\ Len(ret.args[1]) = 4
    /\ ret.args[1][2].c < ret.args[1][1].c
    /\ ret.args[1][3].c = ret.args[1][2].c
    /\ ret.args[1][4].c > ret.args[1][3].c
    /\ ret.val = [num |-> 100, den |-> 1]

\* an RSI strictly between 0 and 100
C23_WitnessInside ==
    /\ ret.op = "calculate_rsi"
    /\ ret.val # None
    /\ 0 < ret.val.num /\ ret.val.num < 100 * ret.val.den

\* C24: clustering is idempotent: clustering the result of _cluster_levels
\* again with the same threshold gives the same list, and no averaged value
\* of the result is within the threshold of the value before it.
C24_ClusterIdempotent ==
    ret.op = "_cluster_levels"
        => LET once == ret.val[1]
               twice == ret.val[2]
               threshold == ret.args[2]
           IN /\ twice = once
              /\ \A i \in 1..(Len(once) - 1) :
                     ~FloatLT(FloatDiv(FloatAbs(FloatSub(once[i + 1], once[i])), once[i]),
                              threshold)

\* C25: get_profit_factor returns the gross positive P&L over the absolute
\* gross negative P&L of the logged trades; 0.0 without a trade, infinity with
\* a winning and no losing trade, 2.0 for the trades +200, -100.
C25_ProfitFactor ==
    ret.op = "get_profit_factor"
        => LET datas == ret.args[1]
               wins == {i \in 1..Len(datas) : datas[i].pnl > 0}
               losses == {i \in 1..Len(datas) : datas[i].pnl < 0}
               RECURSIVE Total(_)
               Total(S) == IF S = {} THEN 0
                           ELSE LET i == CHOOSE j \in S : TRUE
                                IN datas[i].pnl + Total(S \ {i})
               factor == ret.val[2]
           IN /\ Len(datas) = 0 => factor = RatOf(0)
              /\ (wins # {} /\ losses = {}) => factor = Infinity
              /\ losses # {} => /\ factor # Infinity
                                /\ factor.num * (-Total(losses)) = Total(wins) * factor.den
              /\ (Len(datas) = 2 /\ datas[1].pnl = 200 /\ datas[2].pnl = -100)
                     => factor = RatOf(2)

\* C25 witness: the profit factor 2.0 of the trades +200, -100.
C25_Witness ==
    /\ ret.op = "get_profit_factor"
    /\ Len(ret.args[1]) = 2
    /\ ret.args[1][1].pnl = 200
    /\ ret.args[1][2].pnl = -100
    /\ ret.val[2] = [num |-> 2, den |-> 1]

\* an infinite profit factor, of wins and a trade of P&L 0
C25_WitnessInfinite ==
    /\ ret.op = "get_profit_factor"
    /\ ret.val[2] = Infinity
    /\ \E i \in 1..Len(ret.args[1]) : ret.args[1][i].pnl = 0

\* C26: every log_trade call appends one record, and get_win_rate returns
\* the number of logged trades with pnl > 0 over the number of logged trades,
\* 0.0 without a trade and exactly 0.5 for the trades +100, -50.
C26_WinRate ==
    ret.op = "get_win_rate"
        => LET datas == ret.args[1]
               trades == ret.val[1]
               rate == ret.val[2]
               wins == Cardinality({i \in 1..Len(trades) : trades[i].pnl > 0})
           IN /\ Len(trades) = Len(datas)
              /\ \A i \in 1..Len(datas) :
                     /\ trades[i].pnl = datas[i].pnl
                     /\ trades[i].exit_reason = datas[i].exit_reason
              /\ Len(trades) = 0 => rate = RatOf(0)
              /\ Len(trades) > 0 => rate.num * Len(trades) = wins * rate.den
              /\ (Len(datas) = 2 /\ datas[1].pnl = 100 /\ datas[2].pnl = -50)
                     => rate = [num |-> 1, den |-> 2]

\* C26 witness: the win rate 0.5 of the trades +100, -50.
C26_Witness ==
    /\ ret.op = "get_win_rate"
    /\ Len(ret.val[1]) = 2
    /\ ret.val[1][1].pnl = 100
    /\ ret.val[1][2].pnl = -50
    /\ ret.val[2] = [num |-> 1, den |-> 2]

\* a win rate of 1/3 next to a trade of P&L 0
C26_WitnessBreakEven ==
    /\ ret.op = "get_win_rate"
    /\ ret.val[2] = [num |-> 1, den |-> 3]
    /\ \E i \in 1..3 : ret.val[1][i].pnl = 0

\* the equity_curve of a TradeAnalytics that was given every logged equity
CurveOfLog ==
    LoggedEquities(<<>>, [i \in 1..Len(equity_log) |-> equity_log[i].equity])

C28_RsiScore ==
    ret.op = "rsi_decision"
        => LET rsi == ret.args[1]
               score == ret.val[1]
               n == rsi.num
               d == rsi.den
           IN IF rsi = None THEN score = 0
              ELSE /\ n < 30 * d => score = 10
                   /\ n > 70 * d => score = -10
                   /\ (45 * d <= n /\ n <= 55 * d) => score = 0
                   /\ (30 * d <= n /\ n < 45 * d) => score = 5
                   /\ (55 * d < n /\ n <= 70 * d) => score = -5

\* C28 witness: an RSI of exactly 30 scored +0.5.
C28_Witness ==
    /\ ret.op = "rsi_decision"
    /\ ret.args[1] = [num |-> 30, den |-> 1]
    /\ ret.val[1] = 5

\* an undefined RSI scored 0
C28_WitnessNone ==
    /\ ret.op = "rsi_decision"
    /\ ret.args[1] = None
    /\ ret.val[1] = 0

\* C29: in a pass that comes to its entry decision the signal sum shown in
\* the status output equals the signal sum the entry decision compares with
\* its threshold.
C29_OneSignalSum ==
    cycle.outcome = "done" => cycle.status_sum = cycle.signal_sum

\* C30: in a pass over active positions update_position is evaluated once
\* for each position that was active at the start of the pass, in their
\* order, also when an earlier one is fully exited and removed in the pass.
C30_EveryPositionEvaluated ==
    [][(cycle'.outcome = "done" /\ active_positions # <<>>)
           => /\ Len(cycle'.evaluated) = Len(active_positions)
              /\ \A i \in 1..Len(active_positions) :
                     cycle'.evaluated[i].entry_time = active_positions[i].entry_time]_vars

\* the fields of a position the exit rules work with
Held(position) ==
    [volume |-> position.volume, stop_loss |-> position.stop_loss,
     trailing_stop_active |-> position.trailing_stop_active,
     breakeven_stop_set |-> position.breakeven_stop_set,
     profit_targets_hit |-> position.profit_targets_hit]

\* the entry_times of the records in a list of positions or of trades
EntryTimes(records) == {records[i].entry_time : i \in 1..Len(records)}

\* C31: in a pass whose buy order is not confirmed no position is added;
\* a position whose stop-loss full exit is not confirmed is still active
\* after the pass, with the volume, stop and flags it had, and has no trade
\* record; and the next pass at a price at or below its stop_loss attempts
\* that exit again.
C31_UnconfirmedOrderChangesNothing ==
    [][/\ \A k \in 1..Len(cycle'.orders) :
              (cycle'.orders[k].side = "buy" /\ ~cycle'.orders[k].confirmed)
                  => /\ now' = now
                     /\ EntryTimes(active_positions') \subseteq EntryTimes(active_positions)
       /\ \A k \in 1..Len(cycle'.evaluated) :
              LET e == cycle'.evaluated[k] IN
              (e.action = "full_exit" /\ e.reason = "stop_loss" /\ ~e.confirmed)
                  => /\ {Held(q) : q \in WithEntryTime(active_positions', e.entry_time)}
                            = {Held(p) : p \in WithEntryTime(active_positions, e.entry_time)}
                     /\ WithEntryTime(active_positions', e.entry_time) # {}
                     /\ e.entry_time \notin EntryTimes(trade_history')
       /\ \A k \in 1..Len(cycle.evaluated) :
              LET e == cycle.evaluated[k] IN
              (/\ e.action = "full_exit" /\ e.reason = "stop_loss" /\ ~e.confirmed
               /\ cycle'.outcome = "done"
               /\ \E p \in WithEntryTime(active_positions, e.entry_time) :
                      cycle'.price <= p.stop_loss)
                  => \E j \in 1..Len(cycle'.evaluated) :
                         /\ cycle'.evaluated[j].entry_time = e.entry_time
                         /\ cycle'.evaluated[j].action = "full_exit"]_vars

\* the records a remove_position call of this pass appended to trade_history
Written == {trade_history'[i] : i \in (Len(trade_history) + 1)..Len(trade_history')}

\* the pass reaches the time-based exit: positions were active, no stop-loss
\* exit of the pass reset the counter, and the counter comes to
\* MAX_CANDLES_IN_TRADE
TimeExitDue ==
    /\ active_positions # <<>>
    /\ Len(cycle'.evaluated) > 0
    /\ candles_in_position + 1 >= MAX_CANDLES_IN_TRADE
    /\ \A k \in 1..Len(cycle'.evaluated) :
           ~(cycle'.evaluated[k].action = "full_exit" /\ cycle'.evaluated[k].confirmed)

\* C32: a pass in which the counter reaches MAX_CANDLES_IN_TRADE removes
\* every position that was active, writes one trade record with the reason
\* 'time_exit' for each of them and leaves the counter at 0, for one and for
\* two active positions.
C32_TimeExitRemovesAll ==
    [][TimeExitDue
           => /\ EntryTimes(active_positions') \cap EntryTimes(active_positions) = {}
              /\ \A i \in 1..Len(active_positions) :
                     Cardinality({r \in Written :
                                     /\ r.entry_time = active_positions[i].entry_time
                                     /\ r.exit_reason = "time_exit"}) = 1
              /\ Len(trade_history') = Len(trade_history) + Len(active_positions)
              /\ candles_in_position' = 0]_vars

\* C33: when every sell order is confirmed and every pass has its market
\* data, a position is active after at most MAX_CANDLES_IN_TRADE passes
\* following the one that opened it, whatever else is opened or closed.
C33_HeldAtMostMaxCandles ==
    \A t \in DOMAIN held : held[t] <= MAX_CANDLES_IN_TRADE

\* C34: a pass with all market data whose signal sum is below -2 while the
\* asset balance is at least MIN_ASSET_VOLUME places a sell order for that
\* balance.
C34_BearishSignalSells ==
    (/\ cycle.outcome = "done"
     /\ cycle.signal_sum < -20
     /\ cycle.asset_bal >= MIN_ASSET_VOLUME)
        => \E k \in 1..Len(cycle.orders) :
               /\ cycle.orders[k].side = "sell"
               /\ cycle.orders[k].volume = cycle.asset_bal

C36_PositionsAccounted ==
    [][/\ now' = Len(active_positions') + Len(trade_history')
       /\ Len(trade_history') >= Len(trade_history)
       /\ SubSeq(trade_history', 1, Len(trade_history)) = trade_history
       /\ Len(trade_history') > Len(trade_history)
              => /\ ret'.op = "remove_position"
                 /\ ret'.args[1] < Len(active_positions)
       /\ (ret'.op = "remove_position" /\ ret'.args[1] < Len(active_positions))
              => /\ Len(trade_history') = Len(trade_history) + 1
                 /\ Len(active_positions') = Len(active_positions) - 1
       /\ (ret'.op = "remove_position" /\ ret'.args[1] >= Len(active_positions))
              => /\ active_positions' = active_positions
                 /\ trade_history' = trade_history
       /\ ret'.op \in {"update_position", "update_equity"}
              => /\ Len(active_positions') = Len(active_positions)
                 /\ trade_history' = trade_history
       /\ (ret'.op = "update_position" /\ ret'.args[1] >= Len(active_positions))
              => active_positions' = active_positions]_vars

\* C36 witness: two positions were added, one was removed on a valid index
\* and is in the history, the other is still active.
C36_Witness ==
    /\ ret.op = "remove_position"
    /\ ret.val # <<>>
    /\ now = 2
    /\ Len(active_positions) = 1
    /\ Len(trade_history) = 1

\* C36 witness: a remove_position call on an index >= len(active_positions)
\* with a position active and a record in the history.
C36_WitnessOutOfRange ==
    /\ ret.op = "remove_position"
    /\ ret.val = <<>>
    /\ ret.args[1] >= Len(active_positions)
    /\ Len(active_positions) = 1
    /\ Len(trade_history) = 1

\* the drawdowns update_equity has returned so far
ReturnedDrawdowns ==
    {equity_log[n].returned : n \in {k \in 1..Len(equity_log) : ~equity_log[k].raised}}

\* C37: under update_equity and reset_circuit_breaker calls max_drawdown
\* never decreases and is the largest drawdown update_equity has returned so
\* far (0 before any was returned); and with a positive initial equity and
\* equities >= 0, peak_equity >= current_equity after every call and every
\* drawdown returned lies in [0, 1].
C37_MaxDrawdown ==
    [][/\ FracGE(max_drawdown', max_drawdown)
       /\ \A d \in ReturnedDrawdowns' : FracGE(max_drawdown', d)
       /\ \/ max_drawdown' = FracZero
          \/ \E d \in ReturnedDrawdowns' : FracEq(max_drawdown', d)
       /\ (initial_equity > 0 /\ \A n \in 1..Len(equity_log') : equity_log'[n].equity >= 0)
              => /\ peak_equity' >= current_equity'
                 /\ \A d \in ReturnedDrawdowns' :
                        /\ d.den > 0
                        /\ d.num >= 0
                        /\ d.num <= d.den]_vars

\* C37 witness: a drawdown of 5% was returned, the breaker was reset at the
\* lower equity, and a later update_equity call returned a smaller drawdown
\* against the new peak; max_drawdown is still the 5%.
C37_Witness ==
    /\ ret.op = "update_equity"
    /\ ~ret.raised
    /\ peak_equity < initial_equity
    /\ current_equity < peak_equity
    /\ FracEq(max_drawdown, Frac(50, 1000))
    /\ FracGT(max_drawdown, ret.val)
    /\ ret.val.num > 0

\* the first attempt whose response ends the loop of place_order, 0 when
\* none of the first attempts responses does
Deciding(responses, attempts) ==
    LET ending == {k \in 1..attempts : responses[k] \in {"ok", "insufficient", "invalid"}}
    IN IF ending = {} THEN 0 ELSE CHOOSE k \in ending : \A j \in ending : k <= j

\* what the claim says of a place_order(volume, retry, responses) call that
\* returned <<result, requests>>
OrderContract(volume, retry, responses, result, requests) ==
    LET attempts == IF retry THEN MAX_ORDER_RETRIES ELSE 1
        k == Deciding(responses, attempts)
    IN
    /\ requests <= MAX_ORDER_RETRIES
    /\ result \in {OrderResult, None}
    /\ IF RatLT(volume, RatOf(MIN_ASSET_VOLUME))
       THEN result = None /\ requests = 0
       ELSE IF k = 0
       THEN result = None /\ requests = attempts
       ELSE /\ requests = k
            /\ result = IF responses[k] = "ok" THEN OrderResult ELSE None

\* C38: every place_order call with a volume returns a confirmation or None after at most
\* MAX_ORDER_RETRIES requests: the result of the first successful attempt,
\* None right after the first response with an 'Insufficient' or 'Invalid'
\* error, None after all attempts failed, and None without any request for
\* a volume below MIN_ASSET_VOLUME.
C38_PlaceOrder ==
    ret.op = "place_order"
        => /\ ~ret.raised
           /\ OrderContract(ret.args[1], ret.args[2], ret.args[3], ret.val[1], ret.val[2])

\* C38 witness: two attempts failed with errors that can be retried and the
\* third succeeded: the result comes back after three requests.
C38_Witness ==
    /\ ret.op = "place_order"
    /\ ret.args[2]
    /\ ret.args[3] = <<"unavailable", "none", "ok">>
    /\ ret.val = <<OrderResult, 3>>

\* C38 witness: an 'Insufficient' error in the second attempt ends the call
\* with None although the third attempt would have succeeded.
C38_WitnessNotRetried ==
    /\ ret.op = "place_order"
    /\ ret.args[2]
    /\ ret.args[3] = <<"none", "insufficient", "ok">>
    /\ ret.val = <<None, 2>>

\* C38 witness: a volume below MIN_ASSET_VOLUME: None and no request.
C38_WitnessBelowMinimum ==
    /\ ret.op = "place_order"
    /\ RatLT(ret.args[1], RatOf(MIN_ASSET_VOLUME))
    /\ ret.args[3][1] = "ok"
    /\ ret.val = <<None, 0>>

====
